---- MODULE Spec2Model ----
(***************************************************************************)
(* Galaksio's concurrent resource-tracking layer: the TTL cache            *)
(* (CacheManager.py), the sliding-window rate limiter (RateLimiter.py),    *)
(* the workflow tracker (WorkflowTracker.py) and the paired-reads matcher  *)
(* (PairedReadsHandler.py).  Each component has its own specification     *)
(* (SpecCache, SpecLimiter, SpecTracker, SpecPairs) over the shared        *)
(* variables; the components do not call each other.                       *)
(*                                                                         *)
(* Optional values (Python's None) are sequences of length 0 or 1.         *)
(* Dictionaries are functions whose DOMAIN is the set of keys present.     *)
(* Time is the integer wall clock `now`; every handler that runs under a   *)
(* lock is one atomic action reading the clock once.                       *)
(***************************************************************************)
EXTENDS Integers, Sequences, FiniteSets, TLC

VARIABLES
    now,            \* time.time() / datetime.now()
    \* ---- CacheManager
    cache,          \* self.cache: key -> [value, expires_at, created_at]
    access_times,   \* self.access_times: key -> time of last access
    last_touch,     \* history: key -> time of its most recent set or successful get
    cache_ret,      \* history: the last cache call and what it returned
    \* ---- RateLimiter
    requests,       \* self.requests: key -> deque of accepted request times
    limits,         \* self.limits: key -> [requests, window]
    rl_ret,         \* history: the last check_rate_limit call and its result
    allowed_log,    \* history: key -> times of the calls allowed since its limit was set
    \* ---- WorkflowTracker
    active_workflows,   \* self.active_workflows: invocation id -> record
    running,            \* self.running
    loop,               \* the tracking thread: where it is in _update_workflow_states
    fail_streak,        \* history: id -> failed poll cycles in a row at the provider
                        \*   since the record was written by start_tracking
    failed_cycles,      \* history: id -> failed poll cycles in a row at the provider
                        \*   since its last poll that returned
    stop_inflight,      \* history: ids stopped while their poll result was in flight
    \* ---- PairedReadsHandler
    datasets,           \* what get_safe_history_contents returns for the history
    detected,           \* the result of detect_paired_reads, once it has run
    \* ---- threads of the server (threaded=True)
    lock,               \* self.lock of the tracker: the thread holding it, or ""
    caller,             \* request thread -> where it is in a tracker call
    loops_started,      \* history: tracking threads started so far
    singleton,          \* component -> the module-level instance (None until made)
    getter,             \* request thread -> where it is in a get_<component> call
    \* ---- objects constructed with arguments other than those fixed above
    constructed,        \* the arguments CacheManager(...) was constructed with, or None
    scored,             \* the last pair given to _calculate_pair_confidence, with its score
    poll_log,           \* history: the calls and waits of the poll cycle of the job in hand
    held_records        \* request thread -> the records a status read gave it, as they
                        \*   were when the call returned (None when it holds none)

cache_vars == <<cache, access_times, last_touch, cache_ret>>
limiter_vars == <<requests, limits, rl_ret, allowed_log>>

tracker_vars == <<active_workflows, running, loop, fail_streak, failed_cycles,
                  stop_inflight>>

pairs_vars == <<datasets, detected>>

thread_vars == <<lock, caller, loops_started, singleton, getter>>

other_vars == <<constructed, scored, poll_log, held_records>>

\* what an operation of one component leaves alone
not_cache == <<limiter_vars, tracker_vars, pairs_vars, thread_vars, other_vars>>
not_limiter == <<cache_vars, tracker_vars, pairs_vars, thread_vars, other_vars>>
not_tracker == <<cache_vars, limiter_vars, pairs_vars, thread_vars, other_vars>>
not_pairs == <<cache_vars, limiter_vars, tracker_vars, thread_vars, other_vars>>

None == <<>>
Some(x) == <<x>>

\* dict helpers
DictDel(d, k) == [x \in DOMAIN d \ {k} |-> d[x]]
DictPut(d, k, v) == [x \in DOMAIN d \cup {k} |-> IF x = k THEN v ELSE d[x]]
EmptyDict == [x \in {} |-> 0]

(***************************************************************************)
(* CacheManager                                                            *)
(***************************************************************************)
\* constructor arguments of the cache under check, and the clock horizon
max_size == 2
default_ttl == 2
MaxCacheTime == 3

CacheKeys == {"k1", "k2", "k3"}
CacheValues == {"v1"}
\* the ttl argument of set: omitted, 0 (falsy, so the default applies), or given
TtlArgs == {None, Some(0), Some(1)}

\* `ttl or self.default_ttl`
TtlOrDefault(ttl) == IF ttl = None \/ ttl[1] = 0 THEN default_ttl ELSE ttl[1]

\* the expiry test of get, exists and cleanup_expired_cache
ExpiredLax(entry, t) == entry.expires_at <= t
ExpiredNever(entry, t) == FALSE
IsExpired(entry, t) == entry.expires_at < t

\* _remove_key on the pair of dictionaries
remove_key(st, key) ==
    IF key \in DOMAIN st.cache
    THEN [cache |-> DictDel(st.cache, key),
          access_times |-> DictDel(st.access_times, key)]
    ELSE st

\* the keys min() may return: those of least access time (a tie is resolved by
\* dictionary order, which is left open here)
LruKeys(at) == {k \in DOMAIN at : \A j \in DOMAIN at : at[k] <= at[j]}

\* _evict_lru: the states it may leave
evict_lru(st) ==
    IF DOMAIN st.access_times = {}
    THEN {st}
    ELSE {remove_key(st, k) : k \in LruKeys(st.access_times)}

\* the capacity test of set
CacheOverfull(n) == n > max_size
CacheFull(n) == n >= max_size

\* the access-time update of get
KeepAccess(at, key, t) == at
TouchOnGet(at, key, t) == DictPut(at, key, t)

CacheState == [cache |-> cache, access_times |-> access_times]

CacheRet(op, key, found, pre_left, evicted, pre_touch) ==
    [op |-> op, key |-> key, found |-> found, pre_left |-> pre_left,
     evicted |-> evicted, pre_touch |-> pre_touch]

\* history: the lifetime the key's entry has left when the call arrives (expires_at - now)
PreLeft(key) == IF key \in DOMAIN cache THEN Some(cache[key].expires_at - now) ELSE None

Get(key) ==
    /\ IF key \notin DOMAIN cache
       THEN /\ UNCHANGED <<cache, access_times, last_touch>>
            /\ cache_ret' = CacheRet("get", key, FALSE, None, None, EmptyDict)
       ELSE IF IsExpired(cache[key], now)
            THEN /\ cache' = remove_key(CacheState, key).cache
                 /\ access_times' = remove_key(CacheState, key).access_times
                 /\ last_touch' = DictDel(last_touch, key)
                 /\ cache_ret' = CacheRet("get", key, FALSE, PreLeft(key), None, EmptyDict)
            ELSE /\ access_times' = TouchOnGet(access_times, key, now)
                 /\ last_touch' = DictPut(last_touch, key, now)
                 /\ cache_ret' = CacheRet("get", key, TRUE, PreLeft(key), None, EmptyDict)
                 /\ UNCHANGED cache
    /\ UNCHANGED <<now, not_cache>>

Set(key, value, ttl) ==
    /\ \E st \in (IF CacheFull(Cardinality(DOMAIN cache))
                  THEN evict_lru(CacheState) ELSE {CacheState}) :
         /\ cache' = DictPut(st.cache, key,
                             [value |-> value,
                              expires_at |-> now + TtlOrDefault(ttl),
                              created_at |-> now])
         /\ access_times' = DictPut(st.access_times, key, now)
         /\ last_touch' = DictPut([k \in DOMAIN st.cache |-> last_touch[k]], key, now)
         /\ cache_ret' = CacheRet("set", key, TRUE, None,
                                  IF DOMAIN cache = DOMAIN st.cache THEN None
                                  ELSE Some(CHOOSE k \in DOMAIN cache : k \notin DOMAIN st.cache),
                                  IF DOMAIN cache = DOMAIN st.cache THEN EmptyDict
                                  ELSE last_touch)
    /\ UNCHANGED <<now, not_cache>>

Delete(key) ==
    /\ cache' = remove_key(CacheState, key).cache
    /\ access_times' = remove_key(CacheState, key).access_times
    /\ last_touch' = DictDel(last_touch, key)
    /\ cache_ret' = CacheRet("delete", key, key \in DOMAIN cache, None, None, EmptyDict)
    /\ UNCHANGED <<now, not_cache>>

Clear ==
    /\ cache' = EmptyDict
    /\ access_times' = EmptyDict
    /\ last_touch' = EmptyDict
    /\ cache_ret' = CacheRet("clear", "k1", TRUE, None, None, EmptyDict)
    /\ UNCHANGED <<now, not_cache>>

Exists(key) ==
    /\ IF key \notin DOMAIN cache
       THEN /\ UNCHANGED <<cache, access_times, last_touch>>
            /\ cache_ret' = CacheRet("exists", key, FALSE, None, None, EmptyDict)
       ELSE IF IsExpired(cache[key], now)
            THEN /\ cache' = remove_key(CacheState, key).cache
                 /\ access_times' = remove_key(CacheState, key).access_times
                 /\ last_touch' = DictDel(last_touch, key)
                 /\ cache_ret' = CacheRet("exists", key, FALSE, PreLeft(key), None, EmptyDict)
            ELSE /\ UNCHANGED <<cache, access_times, last_touch>>
                 /\ cache_ret' = CacheRet("exists", key, TRUE, PreLeft(key), None, EmptyDict)
    /\ UNCHANGED <<now, not_cache>>

\* cleanup_expired_cache, run by the cleanup thread every 60 s
CleanupExpiredCache ==
    LET expired_keys == {k \in DOMAIN cache : IsExpired(cache[k], now)} IN
    /\ cache' = [k \in DOMAIN cache \ expired_keys |-> cache[k]]
    /\ access_times' = [k \in DOMAIN access_times \ expired_keys |-> access_times[k]]
    /\ last_touch' = [k \in DOMAIN last_touch \ expired_keys |-> last_touch[k]]
    /\ cache_ret' = CacheRet("sweep", "k1", expired_keys # {}, None, None, EmptyDict)
    /\ UNCHANGED <<now, not_cache>>

CacheTick ==
    /\ now < MaxCacheTime
    /\ now' = now + 1
    /\ UNCHANGED <<cache_vars, not_cache>>

\* CacheManager(max_size, default_ttl) with arguments of any sign: __init__ stores
\* them as given and starts the cleanup thread
MaxSizeArgs == {-1, 0, 1, 2}
DefaultTtlArgs == {-1, 0, 1, 2}

Construct(max_size_arg, default_ttl_arg) ==
    /\ constructed = None
    /\ constructed' = Some([max_size |-> max_size_arg, default_ttl |-> default_ttl_arg])
    /\ cache' = EmptyDict
    /\ access_times' = EmptyDict
    /\ last_touch' = EmptyDict
    /\ cache_ret' = CacheRet("init", "k1", FALSE, None, None, EmptyDict)
    /\ UNCHANGED <<now, scored, poll_log, held_records, limiter_vars, tracker_vars, pairs_vars,
                   thread_vars>>

\* set on the object so constructed: the capacity test and the ttl default read
\* its own max_size and default_ttl
ConstructedSet(key, value, ttl) ==
    /\ constructed # None
    /\ LET self == constructed[1]
           lifetime == IF ttl = None \/ ttl[1] = 0 THEN self.default_ttl ELSE ttl[1]
       IN  \E st \in (IF Cardinality(DOMAIN cache) >= self.max_size
                      THEN evict_lru(CacheState) ELSE {CacheState}) :
             /\ cache' = DictPut(st.cache, key,
                                 [value |-> value,
                                  expires_at |-> now + lifetime,
                                  created_at |-> now])
             /\ access_times' = DictPut(st.access_times, key, now)
             /\ last_touch' = DictPut([k \in DOMAIN st.cache |-> last_touch[k]], key, now)
             /\ cache_ret' = CacheRet("set", key, TRUE, None, None, EmptyDict)
    /\ UNCHANGED <<now, constructed, scored, poll_log, held_records, limiter_vars, tracker_vars,
                   pairs_vars, thread_vars>>

(***************************************************************************)
(* RateLimiter                                                             *)
(***************************************************************************)
\* constructor arguments of the limiter under check, the largest window set_limit
\* is given, and how far the clock runs before and after its one long jump
default_requests == 2
default_window == 2
MaxWindow == 3
MaxLimiterTime == 3
\* cleanup_old_requests keeps the last hour
RetentionSeconds == 3600

RlKeys == {"auth:u1", "auth:u2"}
LimitArgs == {0, 1}
WindowArgs == {MaxWindow}

\* self.limits.get(key, {default_requests, default_window})
LimitFor(key) ==
    IF key \in DOMAIN limits THEN limits[key]
    ELSE [requests |-> default_requests, window |-> default_window]

\* while request_times and request_times[0] < window_start: popleft()
RECURSIVE PopOldInclusive(_, _)
PopOldInclusive(times, window_start) ==
    IF times # <<>> /\ Head(times) <= window_start
    THEN PopOldInclusive(Tail(times), window_start)
    ELSE times

RECURSIVE PopOldLate(_, _)
PopOldLate(times, window_start) ==
    IF times # <<>> /\ Head(times) < window_start - 1
    THEN PopOldLate(Tail(times), window_start)
    ELSE times

RECURSIVE PopOld(_, _)
PopOld(times, window_start) ==
    IF times # <<>> /\ Head(times) < window_start
    THEN PopOld(Tail(times), window_start)
    ELSE times

\* if len(request_times) >= limit['requests']
LimitExceeded(n, lim) == n >= lim.requests

\* request_times[0] + limit['window'] if request_times else current_time
ResetTimeNewest(times, lim, t) ==
    IF times # <<>> THEN times[Len(times)] + lim.window ELSE t
ResetTime(times, lim, t) == IF times # <<>> THEN Head(times) + lim.window ELSE t

\* request_times.append(current_time)
AddRequestTwice(request_times, t) == Append(Append(request_times, t), t)
AddRequest(request_times, t) == Append(request_times, t)

\* history: the allowed calls still within MaxWindow of the clock
Recent(log, t) == SelectSeq(log, LAMBDA x : x >= t - MaxWindow)

SetLimit(key, n, window) ==
    /\ limits' = DictPut(limits, key, [requests |-> n, window |-> window])
    /\ allowed_log' = [k \in DOMAIN allowed_log |->
                          IF k = key THEN <<>> ELSE allowed_log[k]]
    /\ UNCHANGED <<requests, rl_ret, now, not_limiter>>

CheckRateLimit(key) ==
    LET limit == LimitFor(key)
        held == IF key \in DOMAIN requests THEN requests[key] ELSE <<>>
        request_times == PopOld(held, now - limit.window)
    IN  IF LimitExceeded(Len(request_times), limit)
        THEN /\ requests' = DictPut(requests, key, request_times)
             /\ rl_ret' = [key |-> key, allowed |-> FALSE, remaining |-> 0,
                           reset_time |-> ResetTime(request_times, limit, now),
                           limit |-> limit.requests, window |-> limit.window]
             /\ UNCHANGED <<limits, allowed_log, now, not_limiter>>
        ELSE /\ requests' = DictPut(requests, key, AddRequest(request_times, now))
             /\ rl_ret' = [key |-> key, allowed |-> TRUE,
                           remaining |-> limit.requests
                                           - Len(AddRequest(request_times, now)),
                           reset_time |-> ResetTime(AddRequest(request_times, now),
                                                    limit, now),
                           limit |-> limit.requests, window |-> limit.window]
             /\ allowed_log' = [allowed_log EXCEPT
                                  ![key] = Append(Recent(allowed_log[key], now), now)]
             /\ UNCHANGED <<limits, now, not_limiter>>

\* cleanup_old_requests, run by the cleanup thread every 300 s
CleanupOldRequests ==
    LET kept == [k \in DOMAIN requests |-> PopOld(requests[k], now - RetentionSeconds)]
    IN  /\ requests' = [k \in {x \in DOMAIN requests : kept[x] # <<>>} |-> kept[k]]
        /\ UNCHANGED <<limits, rl_ret, allowed_log, now, not_limiter>>

\* the endpoint classes of configure_rate_limits and the callers' API keys
LimitTypes == {"auth"}
ApiKeys == {"u1", "u2"}

\* get_client_key for a request that carries an API key: f"{request_type}:{api_key}"
get_client_key(request_type, api_key) ==
    IF request_type = "auth"
    THEN (IF api_key = "u1" THEN "auth:u1" ELSE "auth:u2")
    ELSE request_type

\* configure_rate_limits: rate_limiter.set_limit('auth', 5, 60), with the limit
\* and window of the limiter under check
ConfigureRateLimits ==
    /\ \E t \in LimitTypes : t \notin DOMAIN limits
    /\ \E n \in LimitArgs, w \in WindowArgs :
          limits' = [t \in DOMAIN limits \cup LimitTypes |->
                        IF t \in LimitTypes THEN [requests |-> n, window |-> w]
                        ELSE limits[t]]
    /\ allowed_log' = [k \in DOMAIN allowed_log |-> <<>>]
    /\ UNCHANGED <<requests, rl_ret, now, not_limiter>>

\* a request to an endpoint decorated with rate_limit(limit_type)
RateLimited(limit_type, api_key) ==
    CheckRateLimit(get_client_key(limit_type, api_key))

\* the clock: second by second, with one jump past the retention period
LimiterTick ==
    /\ \/ now < MaxLimiterTime
       \/ now > RetentionSeconds /\ now < RetentionSeconds + 1 + MaxLimiterTime
    /\ now' = now + 1
    /\ UNCHANGED <<limiter_vars, not_limiter>>

LimiterJump ==
    /\ now <= MaxLimiterTime
    /\ now' = now + RetentionSeconds + 1
    /\ UNCHANGED <<limiter_vars, not_limiter>>

(***************************************************************************)
(* WorkflowTracker                                                         *)
(***************************************************************************)
\* self.max_retries
max_retries == 3
SecondsPerHour == 3600
\* the clock horizon and the longest errors list followed
MaxTrackerTime == 2
MaxErrors == 3

InvocationIds == {"i1", "i2"}
\* the ids a single caller tracks in SpecTracker
SoloIds == {"i1"}
WorkflowIds == {"wf"}
MaxAgeArgs == {0}

\* the states after which the spec expects no further poll-driven change:
\* 'completed' is set by stop_tracking, the others are reported by Galaxy
ProviderTerminal == {"ok", "error", "deleted"}
Terminal == ProviderTerminal \cup {"completed"}

\* what gi.invocations.show_invocation may return
Step(id, label, state) == [id |-> id, workflow_step_label |-> label, state |-> state]
Responses ==
    { [state |-> "scheduled", steps |-> <<Step("s1", "align", "running")>>],
      [state |-> "ok",        steps |-> <<Step("s1", "align", "ok")>>],
      [state |-> "error",     steps |-> <<Step("s1", "align", "error")>>] }

\* invocations that are still being scheduled while steps of theirs have failed:
\* one failed step, two failed steps, two failed steps that share a label
StepErrorResponses ==
    { [state |-> "scheduled", steps |-> <<Step("s1", "align", "error")>>],
      [state |-> "scheduled", steps |-> <<Step("s1", "align", "error"),
                                          Step("s2", "sort", "running")>>],
      [state |-> "scheduled", steps |-> <<Step("s1", "align", "error"),
                                          Step("s2", "sort", "error")>>],
      [state |-> "scheduled", steps |-> <<Step("s1", "align", "error"),
                                          Step("s2", "align", "error")>>],
      [state |-> "scheduled", steps |-> <<Step("s1", "align", "ok"),
                                          Step("s2", "sort", "error")>>] }

NoResponse == [state |-> "", steps |-> <<>>]

NewRecord(workflow_id, invocation_id) ==
    [workflow_id |-> workflow_id, invocation_id |-> invocation_id,
     start_time |-> now, last_update |-> now, state |-> "running",
     steps |-> EmptyDict, progress |-> 0, errors |-> <<>>, retry_count |-> 0,
     end_time |-> None]

\* _process_steps
process_steps(steps) ==
    [id \in {steps[n].id : n \in 1..Len(steps)} |->
        LET step == steps[CHOOSE n \in 1..Len(steps) :
                            /\ steps[n].id = id
                            /\ \A m \in n+1..Len(steps) : steps[m].id # id]
        IN  [id |-> id, name |-> step.workflow_step_label, state |-> step.state,
             job_id |-> None, start_time |-> None, end_time |-> None, error |-> None]]

\* _calculate_progress (a percentage; whole for the step lists used here)
calculate_progress(steps) ==
    IF steps = <<>> THEN 0
    ELSE (Cardinality({n \in 1..Len(steps) : steps[n].state \in {"ok", "error", "deleted"}})
            * 100) \div Len(steps)

StepFailedMsg(step) == <<"Step failed", step.workflow_step_label>>

\* the same scan without the `not in` test
RECURSIVE AppendEveryTime(_, _)
AppendEveryTime(steps, errors) ==
    IF steps = <<>> THEN errors
    ELSE AppendEveryTime(Tail(steps),
             IF Head(steps).state = "error"
             THEN Append(errors, StepFailedMsg(Head(steps))) ELSE errors)

\* _check_for_errors: the errors list after the scan
RECURSIVE check_for_errors(_, _)
check_for_errors(steps, errors) ==
    IF steps = <<>> THEN errors
    ELSE LET msg == StepFailedMsg(Head(steps))
             seen == \E n \in 1..Len(errors) : errors[n] = msg
         IN  check_for_errors(Tail(steps),
                 IF Head(steps).state = "error" /\ ~seen
                 THEN Append(errors, msg) ELSE errors)

WorkflowFailedMsg == <<"Workflow execution failed", "">>
UpdateFailedMsg == <<"Failed to update workflow status", "provider error">>

\* the body of _update_single_workflow under the lock, for a tracked record
updated_record(info, invocation) ==
    LET scanned == check_for_errors(invocation.steps, info.errors)
        ended == invocation.state \in ProviderTerminal
    IN  [info EXCEPT
            !.state = invocation.state,
            !.last_update = now,
            !.retry_count = 0,
            !.steps = process_steps(invocation.steps),
            !.progress = calculate_progress(invocation.steps),
            !.end_time = IF ended THEN Some(now) ELSE @,
            !.errors = IF invocation.state = "error"
                       THEN Append(scanned, WorkflowFailedMsg) ELSE scanned]

\* if workflow_info['retry_count'] >= self.max_retries
RetriesExhaustedLate(n) == n > max_retries
RetriesExhausted(n) == n >= max_retries

\* the body of _handle_update_error under the lock, for a tracked record
failed_record(info) ==
    IF RetriesExhausted(info.retry_count + 1)
    THEN [info EXCEPT !.retry_count = @ + 1,
                      !.state = "error",
                      !.end_time = Some(now),
                      !.errors = Append(@, UpdateFailedMsg)]
    ELSE [info EXCEPT !.retry_count = @ + 1]

LoopAt(pc, todo, cur, attempt, result, stale) ==
    [pc |-> pc, todo |-> todo, cur |-> cur, attempt |-> attempt,
     result |-> result, stale |-> stale,
     \* history: the ids of this cycle whose poll outcome found no record
     dropped |-> {}]

StartTracking(workflow_id, invocation_id) ==
    /\ active_workflows' = DictPut(active_workflows, invocation_id,
                                   NewRecord(workflow_id, invocation_id))
    /\ running' = TRUE
    /\ loop' = IF running THEN [loop EXCEPT !.stale = @ \ {invocation_id}]
               ELSE [loop EXCEPT !.pc = "sleep"]
    /\ fail_streak' = [fail_streak EXCEPT ![invocation_id] = 0]
    /\ UNCHANGED failed_cycles
    /\ stop_inflight' = stop_inflight \ {invocation_id}
    /\ UNCHANGED <<now, not_tracker>>

StopTracking(invocation_id) ==
    /\ IF invocation_id \in DOMAIN active_workflows
       THEN /\ active_workflows' =
                   [active_workflows EXCEPT ![invocation_id].state = "completed",
                                            ![invocation_id].end_time = Some(now)]
            /\ stop_inflight' = IF loop.pc \in {"apply", "error"} /\ loop.cur = invocation_id
                                THEN stop_inflight \cup {invocation_id}
                                ELSE stop_inflight
       ELSE UNCHANGED <<active_workflows, stop_inflight>>
    /\ UNCHANGED <<running, loop, fail_streak, failed_cycles, now, not_tracker>>

\* cleanup_old_workflows: the cutoff and the ids collected for removal
cutoff_time(max_age_hours) == now - max_age_hours * SecondsPerHour

to_remove(max_age_hours) ==
    {i \in DOMAIN active_workflows :
        /\ active_workflows[i].state \in {"ok", "error", "deleted"}
        /\ active_workflows[i].end_time # None
        /\ active_workflows[i].end_time[1] < cutoff_time(max_age_hours)}

\* cleanup_old_workflows
CleanupOldWorkflows(max_age_hours) ==
    /\ active_workflows' = [i \in DOMAIN active_workflows \ to_remove(max_age_hours) |->
                                active_workflows[i]]
    /\ stop_inflight' = stop_inflight \ to_remove(max_age_hours)
    /\ UNCHANGED <<running, loop, fail_streak, failed_cycles, now, not_tracker>>

\* get_workflow_statistics: the counts taken under the lock; success_rate is the
\* fraction (completed - failed) * 100 / max(completed, 1)
CountInState(states) ==
    Cardinality({i \in DOMAIN active_workflows : active_workflows[i].state \in states})

get_workflow_statistics ==
    LET total_workflows == Cardinality(DOMAIN active_workflows)
        running_workflows == CountInState({"running"})
        completed_workflows == CountInState({"ok", "error", "deleted"})
        failed_workflows == CountInState({"error"})
    IN  [total_workflows |-> total_workflows,
         running_workflows |-> running_workflows,
         completed_workflows |-> completed_workflows,
         failed_workflows |-> failed_workflows,
         success_rate |-> [num |-> (completed_workflows - failed_workflows) * 100,
                           den |-> IF completed_workflows >= 1
                                   THEN completed_workflows ELSE 1]]

\* _update_workflow_states: the snapshot of the tracked ids, taken under the lock
BeginCycle ==
    /\ running
    /\ loop.pc = "sleep"
    /\ loop' = LoopAt("pick", DOMAIN active_workflows, "", 0, NoResponse,
                      {i \in DOMAIN active_workflows :
                          active_workflows[i].state \in Terminal})
    /\ UNCHANGED <<active_workflows, running, fail_streak, failed_cycles, stop_inflight, now, not_tracker>>

\* the for loop: the next id of the snapshot, or the end of the cycle
PollNext ==
    /\ loop.pc = "pick"
    /\ IF loop.todo = {}
       THEN loop' = LoopAt("sleep", {}, "", 0, NoResponse, {})
       ELSE \E i \in loop.todo :
               loop' = [loop EXCEPT !.pc = "poll", !.todo = @ \ {i}, !.cur = i,
                                    !.attempt = 0]
    /\ UNCHANGED <<active_workflows, running, fail_streak, failed_cycles, stop_inflight, now, not_tracker>>

\* show_invocation returns an invocation
ProviderReturns(invocation) ==
    /\ loop.pc = "poll"
    /\ loop' = [loop EXCEPT !.pc = "apply", !.result = invocation]
    /\ fail_streak' = [fail_streak EXCEPT ![loop.cur] = 0]
    /\ failed_cycles' = [failed_cycles EXCEPT ![loop.cur] = 0]
    /\ UNCHANGED <<active_workflows, running, stop_inflight, now, not_tracker>>

\* show_invocation returns nothing: `if not invocation: return`
ProviderReturnsNothing ==
    /\ loop.pc = "poll"
    /\ loop' = [loop EXCEPT !.pc = "pick", !.cur = "", !.attempt = 0]
    /\ fail_streak' = [fail_streak EXCEPT ![loop.cur] = 0]
    /\ failed_cycles' = [failed_cycles EXCEPT ![loop.cur] = 0]
    /\ UNCHANGED <<active_workflows, running, stop_inflight, now, not_tracker>>

\* show_invocation raises: retry after the backoff wait, or give up on the cycle
ProviderRaises ==
    /\ loop.pc = "poll"
    /\ IF loop.attempt < max_retries - 1
       THEN /\ loop' = [loop EXCEPT !.attempt = @ + 1]
            /\ UNCHANGED <<fail_streak, failed_cycles>>
       ELSE /\ loop' = [loop EXCEPT !.pc = "error"]
            /\ fail_streak' = [fail_streak EXCEPT
                                 ![loop.cur] = IF @ < max_retries THEN @ + 1 ELSE @]
            /\ failed_cycles' = [failed_cycles EXCEPT
                                   ![loop.cur] = IF @ < max_retries THEN @ + 1 ELSE @]
    /\ UNCHANGED <<active_workflows, running, stop_inflight, now, not_tracker>>

\* `if invocation_id in self.active_workflows` around the writes of
\* _update_single_workflow (lines 100-121): the tracked map after the update
ApplyUpdateRecreates(workflows, invocation_id, invocation) ==
    IF invocation_id \in DOMAIN workflows
    THEN [workflows EXCEPT ![invocation_id] = updated_record(@, invocation)]
    ELSE DictPut(workflows, invocation_id,
                 updated_record(NewRecord("wf", invocation_id), invocation))
apply_update(workflows, invocation_id, invocation) ==
    IF invocation_id \in DOMAIN workflows
    THEN [workflows EXCEPT ![invocation_id] = updated_record(@, invocation)]
    ELSE workflows

\* _update_single_workflow, lines 100-121
ApplyResult ==
    /\ loop.pc = "apply"
    /\ loop.cur \in DOMAIN active_workflows
          => Len(updated_record(active_workflows[loop.cur], loop.result).errors)
                 <= MaxErrors
    /\ active_workflows' = apply_update(active_workflows, loop.cur, loop.result)
    /\ loop' = [loop EXCEPT !.pc = "pick", !.cur = "", !.attempt = 0,
                            !.result = NoResponse,
                            !.dropped = IF loop.cur \in DOMAIN active_workflows
                                        THEN @ ELSE @ \cup {loop.cur}]
    /\ stop_inflight' = stop_inflight \ {loop.cur}
    /\ UNCHANGED <<running, fail_streak, failed_cycles, now, not_tracker>>

\* the failure of one job is handled inside _update_single_workflow, whose
\* except clause returns normally: the for loop goes on to the next id
LoopDies(l) == [l EXCEPT !.pc = "off", !.cur = "", !.attempt = 0]
AfterUpdateError(l) == [l EXCEPT !.pc = "pick", !.cur = "", !.attempt = 0]

\* _handle_update_error
HandleUpdateError ==
    /\ loop.pc = "error"
    /\ IF loop.cur \in DOMAIN active_workflows
       THEN /\ Len(failed_record(active_workflows[loop.cur]).errors) <= MaxErrors
            /\ active_workflows' =
                  [active_workflows EXCEPT ![loop.cur] = failed_record(@)]
       ELSE UNCHANGED active_workflows
    /\ loop' = [AfterUpdateError(loop) EXCEPT
                   !.dropped = IF loop.cur \in DOMAIN active_workflows
                               THEN @ ELSE @ \cup {loop.cur}]
    /\ stop_inflight' = stop_inflight \ {loop.cur}
    /\ UNCHANGED <<running, fail_streak, failed_cycles, now, not_tracker>>

\* ---- _get_invocation_with_retry, attempt by attempt.  poll_log holds what the
\* tracking thread did for the job it is polling in this cycle: the calls of
\* show_invocation with their outcome, and the waits between them.
retry_delay == 1
\* how far the clock runs while retries are followed
MaxRetryTime == 6

\* wait_time = self.retry_delay * (2 ** attempt)
WaitTimeFixed(attempt) == retry_delay
wait_time(attempt) == retry_delay * (2 ^ attempt)

Called(outcome) == [event |-> "call", outcome |-> outcome, seconds |-> 0]
Waited(seconds) == [event |-> "wait", outcome |-> "", seconds |-> seconds]

\* one pass of `for attempt in range(self.max_retries)`: show_invocation returns
ShowInvocationReturns(invocation) ==
    /\ loop.pc = "poll"
    /\ poll_log' = Append(IF loop.attempt = 0 THEN <<>> ELSE poll_log, Called("returned"))
    /\ loop' = [loop EXCEPT !.pc = "apply", !.result = invocation]
    /\ fail_streak' = [fail_streak EXCEPT ![loop.cur] = 0]
    /\ failed_cycles' = [failed_cycles EXCEPT ![loop.cur] = 0]
    /\ UNCHANGED <<active_workflows, running, stop_inflight, now, constructed, scored,
                   held_records, cache_vars, limiter_vars, pairs_vars, thread_vars>>

\* one pass of the loop: show_invocation raises; the thread goes on to the
\* backoff wait, or re-raises on the last attempt
ShowInvocationRaises ==
    /\ loop.pc = "poll"
    /\ poll_log' = Append(IF loop.attempt = 0 THEN <<>> ELSE poll_log, Called("raised"))
    /\ IF loop.attempt < max_retries - 1
       THEN /\ loop' = [loop EXCEPT !.pc = "backoff"]
            /\ UNCHANGED <<fail_streak, failed_cycles>>
       ELSE /\ loop' = [loop EXCEPT !.pc = "error"]
            /\ fail_streak' = [fail_streak EXCEPT
                                 ![loop.cur] = IF @ < max_retries THEN @ + 1 ELSE @]
            /\ failed_cycles' = [failed_cycles EXCEPT
                                   ![loop.cur] = IF @ < max_retries THEN @ + 1 ELSE @]
    /\ UNCHANGED <<active_workflows, running, stop_inflight, now, constructed, scored,
                   held_records, cache_vars, limiter_vars, pairs_vars, thread_vars>>

\* time.sleep(wait_time), then the next pass of the loop
BackoffSleep ==
    /\ loop.pc = "backoff"
    /\ now + wait_time(loop.attempt) <= MaxRetryTime
    /\ now' = now + wait_time(loop.attempt)
    /\ poll_log' = Append(poll_log, Waited(wait_time(loop.attempt)))
    /\ loop' = [loop EXCEPT !.pc = "poll", !.attempt = @ + 1]
    /\ UNCHANGED <<active_workflows, running, fail_streak, failed_cycles, stop_inflight,
                   constructed, scored, held_records, cache_vars, limiter_vars, pairs_vars,
                   thread_vars>>

\* ---- the tracking thread followed for ever.  The provider answers with
\* invocations that carry no error, and raises only while the errors list of
\* the job in hand has room for the message a failed cycle may add, so that
\* no record grows without bound.
LiveResponses == {r \in Responses : r.state # "error"}

ProviderRaisesForAWhile ==
    /\ loop.pc = "poll"
    /\ \/ loop.cur \notin DOMAIN active_workflows
       \/ /\ Len(failed_record(active_workflows[loop.cur]).errors) <= MaxErrors
          /\ active_workflows[loop.cur].retry_count <= max_retries
    /\ ProviderRaises

\* show_invocation comes back, one way or the other
ShowInvocationEnds ==
    \/ \E r \in LiveResponses : ProviderReturns(r)
    \/ ProviderRaisesForAWhile

TrackerTick ==
    /\ now < MaxTrackerTime
    /\ now' = now + 1
    /\ UNCHANGED <<tracker_vars, not_tracker>>

(***************************************************************************)
(* PairedReadsHandler.  A file name is a sequence of characters.           *)
(***************************************************************************)
\* the longest history followed
MaxFiles == 3

UpperCase == <<"A","B","C","D","E","F","G","H","I","J","K","L","M",
               "N","O","P","Q","R","S","T","U","V","W","X","Y","Z">>
LowerCase == <<"a","b","c","d","e","f","g","h","i","j","k","l","m",
               "n","o","p","q","r","s","t","u","v","w","x","y","z">>
Digits == {"0","1","2","3","4","5","6","7","8","9"}

\* str.lower()
LowerChar(c) ==
    IF \E n \in 1..26 : UpperCase[n] = c
    THEN LowerCase[CHOOSE n \in 1..26 : UpperCase[n] = c]
    ELSE c
lower(name) == [n \in 1..Len(name) |-> LowerChar(name[n])]

\* the regular expression class \w
WordChar(c) == LowerChar(c) \in {LowerCase[n] : n \in 1..26} \cup Digits \cup {"_"}

\* str.endswith, and the same ignoring case (re.IGNORECASE)
EndsWith(name, suffix) ==
    /\ Len(suffix) <= Len(name)
    /\ SubSeq(name, Len(name) - Len(suffix) + 1, Len(name)) = suffix
EndsWithCI(name, suffix) == EndsWith(lower(name), lower(suffix))
DropLast(name, n) == SubSeq(name, 1, Len(name) - n)

\* the places where `part` occurs in `name`, ignoring case
Occurrences(name, part) ==
    {p \in 1..(Len(name) - Len(part) + 1) :
        lower(SubSeq(name, p, p + Len(part) - 1)) = lower(part)}
\* `part in name` on lowercased names
Contains(name, part) == Occurrences(name, part) # {}

Ext_fastq == <<".","f","a","s","t","q">>
Ext_fq == <<".","f","q">>
Ext_fasta == <<".","f","a","s","t","a">>
Ext_fa == <<".","f","a">>
Ext_fas == <<".","f","a","s">>
Ext_gz == <<".","g","z">>
Ext_bam == <<".","b","a","m">>
Ext_sam == <<".","s","a","m">>
SUPPORTED_EXTENSIONS ==
    {Ext_fastq, Ext_fq, Ext_fasta, Ext_fa, Ext_fas,
     Ext_fastq \o Ext_gz, Ext_fq \o Ext_gz, Ext_fasta \o Ext_gz, Ext_fa \o Ext_gz,
     Ext_fas \o Ext_gz, Ext_bam, Ext_sam}

T_R1 == <<"_","R","1">>
T_R2 == <<"_","R","2">>
T_1 == <<"_","1">>
T_2 == <<"_","2">>
T_read1 == <<"_","r","e","a","d","1">>
T_read2 == <<"_","r","e","a","d","2">>
T_dotR1 == <<".","R","1">>
T_dotR2 == <<".","R","2">>
T_forward == <<"_","f","o","r","w","a","r","d">>
T_reverse == <<"_","r","e","v","e","r","s","e">>
T_001 == <<"_","0","0","1">>

\* PAIRED_READ_PATTERNS, in order: (.+)<ind>(_001)?\.(\w+)$ -> \1<repl>\2.\3
\* for the first four, (.+)<ind>\.(\w+)$ -> \1<repl>.\2 for the others
Pattern(ind, lane, repl) == [ind |-> ind, lane |-> lane, repl |-> repl]
PAIRED_READ_PATTERNS ==
    << Pattern(T_R1, TRUE, T_R2), Pattern(T_R2, TRUE, T_R1),
       Pattern(T_1, TRUE, T_2), Pattern(T_2, TRUE, T_1),
       Pattern(T_read1, FALSE, T_read2), Pattern(T_read2, FALSE, T_read1),
       Pattern(T_dotR1, FALSE, T_dotR2), Pattern(T_dotR2, FALSE, T_dotR1),
       Pattern(T_forward, FALSE, T_reverse), Pattern(T_reverse, FALSE, T_forward) >>

\* the last "." of a name that is followed by one or more \w up to the end: 0 if none
ExtDot(name) ==
    LET dots == {p \in 1..Len(name) : name[p] = "."} IN
    IF dots = {} THEN 0
    ELSE LET d == CHOOSE p \in dots : \A q \in dots : q <= p IN
         IF d < Len(name) /\ \A q \in d+1..Len(name) : WordChar(name[q])
         THEN d ELSE 0

\* re.sub(pattern, replacement, name, flags=re.IGNORECASE): the name itself when
\* the pattern does not match
pattern_sub(pat, name) ==
    LET d == ExtDot(name)
        base == SubSeq(name, 1, d - 1)
        tail == SubSeq(name, d, Len(name))
    IN  IF d = 0 THEN name
        ELSE IF EndsWithCI(base, pat.ind) /\ Len(base) > Len(pat.ind)
        THEN DropLast(base, Len(pat.ind)) \o pat.repl \o tail
        ELSE IF /\ pat.lane
                /\ EndsWith(base, T_001)
                /\ EndsWithCI(DropLast(base, 4), pat.ind)
                /\ Len(base) > Len(pat.ind) + 4
        THEN DropLast(base, Len(pat.ind) + 4) \o pat.repl \o T_001 \o tail
        ELSE name

\* _names_match
names_match(name1, name2) == lower(name1) = lower(name2)

\* _is_sequencing_file
AcceptsAnyName(dataset) == TRUE
is_sequencing_file(dataset) ==
    \E ext \in SUPPORTED_EXTENSIONS : EndsWith(lower(dataset.name), ext)

\* the candidates of _find_pair's inner loop: every other file of the list
OtherFiles(file1, files) ==
    {n \in 1..Len(files) : files[n].id # file1.id}

\* _find_pair from pattern number k on: the partner found, or None
RECURSIVE find_pair_from(_, _, _)
find_pair_from(k, file1, files) ==
    IF k > Len(PAIRED_READ_PATTERNS) THEN None
    ELSE LET expected_pair_name == pattern_sub(PAIRED_READ_PATTERNS[k], file1.name)
             hits == {n \in OtherFiles(file1, files) :
                        names_match(files[n].name, expected_pair_name)}
         IN  IF expected_pair_name # file1.name /\ hits # {}
             THEN Some(files[CHOOSE n \in hits : \A m \in hits : n <= m])
             ELSE find_pair_from(k + 1, file1, files)

find_pair(file1, files) == find_pair_from(1, file1, files)

\* _determine_pair_type
determine_pair_type(file1, file2) ==
    LET name1 == lower(file1.name)
        name2 == lower(file2.name)
    IN  IF Contains(name1, <<"_","r","1">>) /\ Contains(name2, <<"_","r","2">>)
        THEN "illumina_r1_r2"
        ELSE IF Contains(name1, <<"_","r","2">>) /\ Contains(name2, <<"_","r","1">>)
        THEN "illumina_r2_r1"
        ELSE IF Contains(name1, T_1) /\ Contains(name2, T_2) THEN "illumina_1_2"
        ELSE IF Contains(name1, T_2) /\ Contains(name2, T_1) THEN "illumina_2_1"
        ELSE IF Contains(name1, <<"f","o","r","w","a","r","d">>)
                /\ Contains(name2, <<"r","e","v","e","r","s","e">>)
        THEN "forward_reverse"
        ELSE IF Contains(name1, <<"r","e","v","e","r","s","e">>)
                /\ Contains(name2, <<"f","o","r","w","a","r","d">>)
        THEN "reverse_forward"
        ELSE "unknown"

PairIndicators ==
    {T_R1, T_R2, T_1, T_2, T_read1, T_read2, T_dotR1, T_dotR2, T_forward, T_reverse}

\* re.sub(r'(_R1|_R2|...|_reverse).*$', '', name, flags=re.IGNORECASE): the name
\* cut at the leftmost indicator
strip_indicator(name) ==
    LET at == UNION {Occurrences(name, ind) : ind \in PairIndicators} IN
    IF at = {} THEN name
    ELSE SubSeq(name, 1, (CHOOSE p \in at : \A q \in at : p <= q) - 1)

Suffix_paired == <<"_","p","a","i","r","e","d">>

\* _generate_suggested_name
generate_suggested_name(file1, file2) ==
    LET base_name1 == strip_indicator(file1.name)
        base_name2 == strip_indicator(file2.name)
        suggested_base == IF Len(base_name2) < Len(base_name1)
                          THEN base_name2 ELSE base_name1
    IN  suggested_base \o Suffix_paired

\* _group_paired_files from file number n on
RECURSIVE group_from(_, _, _, _)
group_from(n, files, paired_groups, processed) ==
    IF n > Len(files) THEN paired_groups
    ELSE LET file1 == files[n] IN
         IF file1.id \in processed
         THEN group_from(n + 1, files, paired_groups, processed)
         ELSE LET file2 == find_pair(file1, files) IN
              IF file2 # None
              THEN group_from(n + 1, files,
                       Append(paired_groups,
                              [group_id |-> Len(paired_groups) + 1,
                               files |-> <<file1, file2[1]>>,
                               pair_type |-> determine_pair_type(file1, file2[1]),
                               suggested_name |->
                                   generate_suggested_name(file1, file2[1])]),
                       processed \cup {file1.id, file2[1].id})
              ELSE group_from(n + 1, files, paired_groups, processed \cup {file1.id})

group_paired_files(files) == group_from(1, files, <<>>, {})

\* _get_unpaired_files
get_unpaired_files(all_files, paired_groups) ==
    LET paired_file_ids == {paired_groups[g].files[n].id :
                               g \in 1..Len(paired_groups), n \in 1..2}
    IN  SelectSeq(all_files, LAMBDA f : f.id \notin paired_file_ids)

\* detect_paired_reads, once the history contents are in hand
detect_paired_reads(contents) ==
    LET sequencing_files == SelectSeq(contents, is_sequencing_file)
        paired_groups == group_paired_files(sequencing_files)
    IN  [success |-> TRUE,
         paired_groups |-> paired_groups,
         unpaired_files |-> get_unpaired_files(sequencing_files, paired_groups),
         total_pairs |-> Len(paired_groups),
         total_unpaired |-> Len(sequencing_files) - 2 * Len(paired_groups)]

DetectPairedReads ==
    /\ detected = None
    /\ detected' = Some(detect_paired_reads(datasets))
    /\ UNCHANGED <<datasets, now, not_pairs>>

\* the names the histories under check are drawn from
Stem_a == <<"a">>
Stem_a1 == <<"a","_","1">>
FileNames ==
    { Stem_a \o T_R1 \o Ext_fq,                 \* a_R1.fq
      Stem_a \o T_R2 \o Ext_fq,                 \* a_R2.fq
      <<"A">> \o T_R1 \o Ext_fq,                \* A_R1.fq
      Stem_a \o T_R1 \o Ext_fq \o Ext_gz,       \* a_R1.fq.gz
      Stem_a \o T_R2 \o Ext_fq \o Ext_gz,       \* a_R2.fq.gz
      Stem_a1 \o T_R1 \o Ext_fq,                \* a_1_R1.fq
      Stem_a1 \o T_R2 \o Ext_fq,                \* a_1_R2.fq
      Stem_a \o T_1 \o Ext_fq,                  \* a_1.fq
      Stem_a \o T_2 \o Ext_fq,                  \* a_2.fq
      Stem_a \o T_1 \o Ext_fq \o Ext_gz,        \* a_1.fq.gz
      Stem_a \o T_2 \o Ext_fq \o Ext_gz,        \* a_2.fq.gz
      <<"u">> \o Ext_fq,                        \* u.fq
      <<"n",".","t","x","t">> }                 \* n.txt

\* a history: up to MaxFiles datasets, the n-th with id n
Histories ==
    UNION {[1..len -> FileNames] : len \in 0..MaxFiles}
AsDatasets(names) == [n \in 1..Len(names) |-> [id |-> n, name |-> names[n]]]

\* ---- _calculate_pair_confidence.  The score is a fraction num/den counted in
\* tenths, so that 0.4 is 4/1 and size_ratio * 0.3 is (3 * min)/max.
Frac(num, den) == [num |-> num, den |-> den]
FracAdd(x, y) == Frac(x.num * y.den + y.num * x.den, x.den * y.den)
FracLeq(x, y) == x.num * y.den <= y.num * x.den
FracMin(x, y) == IF FracLeq(x, y) THEN x ELSE y

Min2(a, b) == IF a <= b THEN a ELSE b
Max2(a, b) == IF a <= b THEN b ELSE a

\* the naming-pattern term
pattern_term(name1, name2) ==
    IF \/ Contains(name1, <<"_","r","1">>) /\ Contains(name2, <<"_","r","2">>)
       \/ Contains(name1, <<"_","r","2">>) /\ Contains(name2, <<"_","r","1">>)
    THEN Frac(4, 1)
    ELSE IF \/ Contains(name1, T_1) /\ Contains(name2, T_2)
            \/ Contains(name1, T_2) /\ Contains(name2, T_1)
    THEN Frac(3, 1)
    ELSE Frac(0, 1)

\* the file-size term: size_ratio * 0.3 when both sizes are positive
SizeTermInverted(size1, size2) ==
    IF size1 > 0 /\ size2 > 0
    THEN Frac(3 * (Max2(size1, size2) - Min2(size1, size2)), Max2(size1, size2))
    ELSE Frac(0, 1)
size_term(size1, size2) ==
    IF size1 > 0 /\ size2 > 0
    THEN Frac(3 * Min2(size1, size2), Max2(size1, size2))
    ELSE Frac(0, 1)

\* the data-type term
type_term(data_type1, data_type2) ==
    IF data_type1 = data_type2 THEN Frac(2, 1) ELSE Frac(0, 1)

calculate_pair_confidence(file1, file2) ==
    LET name1 == lower(file1.name)
        name2 == lower(file2.name)
        confidence == FracAdd(FracAdd(pattern_term(name1, name2),
                                      size_term(file1.file_size, file2.file_size)),
                              type_term(file1.data_type, file2.data_type))
    IN  FracMin(confidence, Frac(10, 1))

\* the pairs scored: names of each naming pattern, sizes and data types as Galaxy
\* reports them ("" is the default of a missing data_type, 0 of a missing size)
MaxFileSize == 4
FileSizes == 0..MaxFileSize
DataTypes == {"", "fastq", "fasta"}
NamePairs ==
    { <<Stem_a \o T_R1 \o Ext_fq, Stem_a \o T_R2 \o Ext_fq>>,
      <<Stem_a \o T_2 \o Ext_fq, Stem_a \o T_1 \o Ext_fq>>,
      <<Stem_a \o T_forward \o Ext_fq, Stem_a \o T_reverse \o Ext_fq>> }
SizedFile(name, file_size, data_type) ==
    [name |-> name, file_size |-> file_size, data_type |-> data_type]

CalculatePairConfidence(file1, file2) ==
    /\ scored = None
    /\ scored' = Some([file1 |-> file1, file2 |-> file2,
                       confidence |-> calculate_pair_confidence(file1, file2)])
    /\ UNCHANGED <<now, constructed, poll_log, held_records, cache_vars, limiter_vars, tracker_vars,
                   pairs_vars, thread_vars>>

(***************************************************************************)
(* Request threads.  Flask serves each request on its own thread            *)
(* (server.py: threaded=True), so the statements of a call outside a        *)
(* `with self.lock` block interleave with those of other threads.           *)
(***************************************************************************)
Threads == {"t1", "t2"}
Components == {"cache_manager", "rate_limiter", "workflow_tracker"}

At(pc, op, id) == [pc |-> pc, op |-> op, id |-> id]

\* start_tracking, lines 30-42: the record is written under the lock
StartWritesRecord(t, workflow_id, invocation_id) ==
    /\ caller[t].pc = "idle"
    /\ lock = ""
    /\ active_workflows' = DictPut(active_workflows, invocation_id,
                                   NewRecord(workflow_id, invocation_id))
    /\ caller' = [caller EXCEPT ![t] = At("check", "start_tracking", invocation_id)]
    /\ UNCHANGED <<running, loop, fail_streak, failed_cycles, stop_inflight, lock, loops_started,
                   singleton, getter, now, cache_vars, limiter_vars, pairs_vars,
                   other_vars>>

\* start_tracking, line 43: `if not self.running`, read outside the lock
StartChecksRunning(t) ==
    /\ caller[t].pc = "check"
    /\ caller' = [caller EXCEPT ![t].pc = IF running THEN "returned" ELSE "spawn"]
    /\ UNCHANGED <<tracker_vars, lock, loops_started, singleton, getter, now,
                   cache_vars, limiter_vars, pairs_vars,
                   other_vars>>

\* _start_background_tracking, line 65: self.running = True
StartSetsRunning(t) ==
    /\ caller[t].pc = "spawn"
    /\ running' = TRUE
    /\ caller' = [caller EXCEPT ![t].pc = "thread"]
    /\ UNCHANGED <<active_workflows, loop, fail_streak, failed_cycles, stop_inflight, lock,
                   loops_started, singleton, getter, now,
                   cache_vars, limiter_vars, pairs_vars,
                   other_vars>>

\* _start_background_tracking, lines 66-67: the tracking thread is started
StartStartsThread(t) ==
    /\ caller[t].pc = "thread"
    /\ loops_started' = loops_started + 1
    /\ loop' = IF loop.pc = "off" THEN [loop EXCEPT !.pc = "sleep"] ELSE loop
    /\ caller' = [caller EXCEPT ![t].pc = "returned"]
    /\ UNCHANGED <<active_workflows, running, fail_streak, failed_cycles, stop_inflight, lock,
                   singleton, getter, now, cache_vars, limiter_vars, pairs_vars,
                   other_vars>>

\* the request is over; the thread serves the next one
CallerReturns(t) ==
    /\ caller[t].pc = "returned"
    /\ caller' = [caller EXCEPT ![t] = At("idle", "", "")]
    /\ UNCHANGED <<tracker_vars, lock, loops_started, singleton, getter, now,
                   cache_vars, limiter_vars, pairs_vars,
                   other_vars>>

(***************************************************************************)
(* The tracker's lock.  Each `with self.lock` block is an acquire step and  *)
(* a step that runs the block and releases.  loop.pc = "poll" covers the    *)
(* whole of _get_invocation_with_retry: the provider calls and the backoff  *)
(* sleeps between them.                                                     *)
(***************************************************************************)
\* leaving a `with self.lock` block
HoldOn(holder) == holder
Release(holder) == ""

\* the tracker calls a request thread makes under the lock
LockedOps == {"get_workflow_status", "get_all_active_workflows", "stop_tracking"}

\* a request thread enters the `with self.lock` block of one of its calls
CallerLocks(t, op, invocation_id) ==
    /\ caller[t].pc = "idle"
    /\ lock = ""
    /\ lock' = t
    /\ caller' = [caller EXCEPT ![t] = At("locked", op, invocation_id)]
    /\ UNCHANGED <<tracker_vars, loops_started, singleton, getter, now,
                   cache_vars, limiter_vars, pairs_vars,
                   other_vars>>

\* the block runs and the lock is released: the reads change nothing,
\* stop_tracking rewrites state and end_time
CallerUnlocks(t) ==
    /\ caller[t].pc = "locked"
    /\ lock = t
    /\ IF caller[t].op = "stop_tracking" /\ caller[t].id \in DOMAIN active_workflows
       THEN active_workflows' =
               [active_workflows EXCEPT ![caller[t].id].state = "completed",
                                        ![caller[t].id].end_time = Some(now)]
       ELSE UNCHANGED active_workflows
    /\ lock' = Release(t)
    /\ caller' = [caller EXCEPT ![t].pc = "returned"]
    /\ UNCHANGED <<running, loop, fail_streak, failed_cycles, stop_inflight, loops_started,
                   singleton, getter, now, cache_vars, limiter_vars, pairs_vars,
                   other_vars>>

\* _update_workflow_states, line 81: the tracking thread takes the lock
LoopLocksSnapshot ==
    /\ running
    /\ loop.pc = "sleep"
    /\ lock = ""
    /\ lock' = "loop"
    /\ loop' = [loop EXCEPT !.pc = "snapshot"]
    /\ UNCHANGED <<active_workflows, running, fail_streak, failed_cycles, stop_inflight, caller,
                   loops_started, singleton, getter, now,
                   cache_vars, limiter_vars, pairs_vars,
                   other_vars>>

\* _update_workflow_states, line 82: the keys are copied and the lock released
LoopSnapshots ==
    /\ loop.pc = "snapshot"
    /\ lock = "loop"
    /\ loop' = LoopAt("pick", DOMAIN active_workflows, "", 0, NoResponse,
                      {i \in DOMAIN active_workflows :
                          active_workflows[i].state \in Terminal})
    /\ lock' = Release("loop")
    /\ UNCHANGED <<active_workflows, running, fail_streak, failed_cycles, stop_inflight, caller,
                   loops_started, singleton, getter, now,
                   cache_vars, limiter_vars, pairs_vars,
                   other_vars>>

\* _update_single_workflow line 100, _handle_update_error line 144: the
\* tracking thread takes the lock to apply the outcome of the poll
LoopLocksOutcome ==
    /\ loop.pc \in {"apply", "error"}
    /\ lock = ""
    /\ lock' = "loop"
    /\ UNCHANGED <<tracker_vars, caller, loops_started, singleton, getter, now,
                   cache_vars, limiter_vars, pairs_vars,
                   other_vars>>

\* the outcome is applied under the lock and the lock released
LoopAppliesOutcome ==
    /\ loop.pc \in {"apply", "error"}
    /\ lock = "loop"
    /\ IF loop.cur \in DOMAIN active_workflows
       THEN LET after == IF loop.pc = "apply"
                         THEN updated_record(active_workflows[loop.cur], loop.result)
                         ELSE failed_record(active_workflows[loop.cur])
            IN  /\ Len(after.errors) <= MaxErrors
                /\ active_workflows' = [active_workflows EXCEPT ![loop.cur] = after]
       ELSE UNCHANGED active_workflows
    /\ loop' = [loop EXCEPT !.pc = "pick", !.cur = "", !.attempt = 0,
                            !.result = NoResponse]
    /\ lock' = Release("loop")
    /\ UNCHANGED <<running, fail_streak, failed_cycles, stop_inflight, caller, loops_started,
                   singleton, getter, now, cache_vars, limiter_vars, pairs_vars,
                   other_vars>>

(***************************************************************************)
(* What a status read hands out.  get_workflow_status returns the record   *)
(* object stored in active_workflows, and get_all_active_workflows a new   *)
(* list of those same objects: the caller holds references, and reads the  *)
(* fields after the lock is released.  held_records[t] keeps, for each id *)
(* the caller got, the value the record had when the call returned.  The   *)
(* locked block of _update_single_workflow is followed assignment by       *)
(* assignment, in two steps.                                               *)
(***************************************************************************)
ReadOps == {"get_workflow_status", "get_all_active_workflows"}

\* the ids whose record objects the call returns
Returned(op, invocation_id) ==
    IF op = "get_all_active_workflows" THEN DOMAIN active_workflows
    ELSE DOMAIN active_workflows \cap {invocation_id}

\* the block of a read runs, the lock is released and the caller has the result
CallerTakesRecords(t) ==
    /\ caller[t].pc = "locked"
    /\ caller[t].op \in ReadOps
    /\ lock = t
    /\ held_records' = [held_records EXCEPT ![t] =
                  Some([i \in Returned(caller[t].op, caller[t].id) |-> active_workflows[i]])]
    /\ lock' = Release(t)
    /\ caller' = [caller EXCEPT ![t].pc = "holding"]
    /\ UNCHANGED <<tracker_vars, loops_started, singleton, getter, now, constructed,
                   scored, poll_log, cache_vars, limiter_vars, pairs_vars>>

\* what the caller finds in the objects it holds when it reads their fields now
Seen(t) == [i \in DOMAIN held_records[t][1] |-> active_workflows[i]]

\* the request is over and the references are dropped
CallerDropsRecords(t) ==
    /\ caller[t].pc = "holding"
    /\ held_records' = [held_records EXCEPT ![t] = None]
    /\ caller' = [caller EXCEPT ![t] = At("idle", "", "")]
    /\ UNCHANGED <<tracker_vars, lock, loops_started, singleton, getter, now,
                   constructed, scored, poll_log, cache_vars, limiter_vars,
                   pairs_vars>>

\* _update_single_workflow, lines 101-105: state, last_update and retry_count
\* are assigned
LoopWritesState ==
    /\ loop.pc = "apply"
    /\ lock = "loop"
    /\ IF loop.cur \in DOMAIN active_workflows
       THEN /\ active_workflows' =
                  [active_workflows EXCEPT ![loop.cur].state = loop.result.state,
                                           ![loop.cur].last_update = now,
                                           ![loop.cur].retry_count = 0]
            /\ loop' = [loop EXCEPT !.pc = "apply_rest"]
            /\ UNCHANGED lock
       ELSE /\ loop' = [loop EXCEPT !.pc = "pick", !.cur = "", !.attempt = 0,
                                    !.result = NoResponse]
            /\ lock' = Release("loop")
            /\ UNCHANGED active_workflows
    /\ UNCHANGED <<running, fail_streak, failed_cycles, stop_inflight, caller,
                   loops_started, singleton, getter, now, cache_vars, limiter_vars,
                   pairs_vars, other_vars>>

\* _update_single_workflow, lines 107-121: steps, progress, errors and end_time
\* are assigned and the lock is released
LoopWritesRest ==
    /\ loop.pc = "apply_rest"
    /\ lock = "loop"
    /\ Len(updated_record(active_workflows[loop.cur], loop.result).errors) <= MaxErrors
    /\ active_workflows' =
          [active_workflows EXCEPT ![loop.cur] = updated_record(@, loop.result)]
    /\ loop' = [loop EXCEPT !.pc = "pick", !.cur = "", !.attempt = 0,
                            !.result = NoResponse]
    /\ lock' = Release("loop")
    /\ UNCHANGED <<running, fail_streak, failed_cycles, stop_inflight, caller,
                   loops_started, singleton, getter, now, cache_vars, limiter_vars,
                   pairs_vars, other_vars>>

\* start_tracking of an id that is not tracked yet, so that a record object,
\* once handed out, is not replaced by another under the same id; the call as
\* a whole, made while the lock is free
StartsUntracked(workflow_id, invocation_id) ==
    /\ invocation_id \notin DOMAIN active_workflows
    /\ lock = ""
    /\ StartTracking(workflow_id, invocation_id)

\* stop_tracking as a whole, made while the lock is free
StopsUnlocked(invocation_id) ==
    /\ lock = ""
    /\ StopTracking(invocation_id)

\* _handle_update_error under the lock
LoopCountsFailure ==
    /\ loop.pc = "error"
    /\ LoopAppliesOutcome

(***************************************************************************)
(* The module-level instances: get_cache_manager, get_rate_limiter and     *)
(* get_workflow_tracker.  Each tests its global, constructs and stores an  *)
(* instance when the global is None, and returns what the global then      *)
(* holds; nothing is locked, and request threads may be switched between   *)
(* the three steps.  An instance is named by its component and the thread  *)
(* that constructed it.                                                    *)
(***************************************************************************)
Instance(component, t) == <<component, t>>

GetterTests(t, component) ==
    /\ getter[t].pc = "idle"
    /\ getter' = [getter EXCEPT ![t].component = component,
                                ![t].got = None,
                                ![t].pc = IF singleton[component] = None
                                          THEN "construct" ELSE "return"]
    /\ UNCHANGED <<singleton, tracker_vars, lock, caller, loops_started, now,
                   cache_vars, limiter_vars, pairs_vars,
                   other_vars>>

GetterConstructs(t) ==
    /\ getter[t].pc = "construct"
    /\ singleton' = [singleton EXCEPT ![getter[t].component] =
                                          Instance(getter[t].component, t)]
    /\ getter' = [getter EXCEPT ![t].pc = "return",
                                ![t].made = @ \cup {Instance(getter[t].component, t)}]
    /\ UNCHANGED <<tracker_vars, lock, caller, loops_started, now,
                   cache_vars, limiter_vars, pairs_vars,
                   other_vars>>

GetterReturns(t) ==
    /\ getter[t].pc = "return"
    /\ getter' = [getter EXCEPT ![t].pc = "returned",
                                ![t].got = singleton[getter[t].component]]
    /\ UNCHANGED <<singleton, tracker_vars, lock, caller, loops_started, now,
                   cache_vars, limiter_vars, pairs_vars,
                   other_vars>>

GetterDone(t) ==
    /\ getter[t].pc = "returned"
    /\ getter' = [getter EXCEPT ![t].pc = "idle", ![t].component = "",
                                ![t].got = None]
    /\ UNCHANGED <<singleton, tracker_vars, lock, caller, loops_started, now,
                   cache_vars, limiter_vars, pairs_vars,
                   other_vars>>

(***************************************************************************)
(* Specifications                                                          *)
(***************************************************************************)
vars == <<now, cache, access_times, last_touch, cache_ret,
          requests, limits, rl_ret, allowed_log,
          active_workflows, running, loop, fail_streak, failed_cycles, stop_inflight,
          datasets, detected,
          lock, caller, loops_started, singleton, getter,
          constructed, scored, poll_log, held_records>>

CacheInit ==
    /\ cache = EmptyDict
    /\ access_times = EmptyDict
    /\ last_touch = EmptyDict
    /\ cache_ret = [op |-> "init", key |-> "k1", found |-> FALSE, pre_left |-> None,
                    evicted |-> None, pre_touch |-> EmptyDict]

LimiterInit ==
    /\ requests = EmptyDict
    /\ limits = EmptyDict
    /\ rl_ret = [key |-> "auth:u1", allowed |-> FALSE, remaining |-> 0,
                 reset_time |-> 0, limit |-> 0, window |-> 0]
    /\ allowed_log = [k \in RlKeys |-> <<>>]

TrackerInit ==
    /\ active_workflows = EmptyDict
    /\ running = FALSE
    /\ loop = LoopAt("off", {}, "", 0, NoResponse, {})
    /\ fail_streak = [i \in InvocationIds |-> 0]
    /\ failed_cycles = [i \in InvocationIds |-> 0]
    /\ stop_inflight = {}

OtherInit ==
    /\ constructed = None
    /\ scored = None
    /\ poll_log = <<>>
    /\ held_records = [t \in Threads |-> None]

ThreadsInit ==
    /\ lock = ""
    /\ caller = [t \in Threads |-> [pc |-> "idle", op |-> "", id |-> ""]]
    /\ loops_started = 0
    /\ singleton = [c \in Components |-> None]
    /\ getter = [t \in Threads |-> [pc |-> "idle", component |-> "", got |-> None,
                                    made |-> {}]]

Init ==
    /\ now = 0
    /\ CacheInit
    /\ LimiterInit
    /\ TrackerInit
    /\ ThreadsInit
    /\ OtherInit
    /\ datasets = <<>>
    /\ detected = None

InitPairs ==
    /\ now = 0
    /\ CacheInit
    /\ LimiterInit
    /\ TrackerInit
    /\ ThreadsInit
    /\ OtherInit
    /\ datasets \in {AsDatasets(names) : names \in Histories}
    /\ detected = None

NextCache ==
    \/ \E key \in CacheKeys : Get(key)
    \/ \E key \in CacheKeys, value \in CacheValues, ttl \in TtlArgs : Set(key, value, ttl)
    \/ \E key \in CacheKeys : Delete(key)
    \/ \E key \in CacheKeys : Exists(key)
    \/ Clear
    \/ CleanupExpiredCache
    \/ CacheTick

SpecCache == Init /\ [][NextCache]_vars

NextConstruct ==
    \/ \E m \in MaxSizeArgs, d \in DefaultTtlArgs : Construct(m, d)
    \/ \E k \in CacheKeys, v \in CacheValues, ttl \in TtlArgs : ConstructedSet(k, v, ttl)
    \/ CleanupExpiredCache
    \/ CacheTick

SpecConstruct == Init /\ [][NextConstruct]_vars

\* the cleanup thread is a daemon thread of its own: `while True` around
\* sleep(60) and cleanup_expired_cache, so the sweep runs again and again
NextSweep ==
    \/ \E key \in CacheKeys, value \in CacheValues, ttl \in TtlArgs : Set(key, value, ttl)
    \/ \E key \in CacheKeys : Get(key)
    \/ CleanupExpiredCache
    \/ CacheTick

SpecSweep == Init /\ [][NextSweep]_vars /\ WF_vars(CleanupExpiredCache)

NextLimiter ==
    \/ \E key \in RlKeys, n \in LimitArgs, w \in WindowArgs : SetLimit(key, n, w)
    \/ \E key \in RlKeys : CheckRateLimit(key)
    \/ CleanupOldRequests
    \/ LimiterTick
    \/ LimiterJump

SpecLimiter == Init /\ [][NextLimiter]_vars

\* set_limit takes any window, also one longer than what cleanup_old_requests keeps
LongWindow == 2 * RetentionSeconds
RetentionWindowArgs == {MaxWindow, LongWindow}

NextRetention ==
    \/ \E n \in LimitArgs, w \in RetentionWindowArgs : SetLimit("auth:u1", n, w)
    \/ \E key \in RlKeys : CheckRateLimit(key)
    \/ CleanupOldRequests
    \/ LimiterTick
    \/ LimiterJump

SpecRetention == Init /\ [][NextRetention]_vars

NextEndpoints ==
    \/ ConfigureRateLimits
    \/ \E t \in LimitTypes, a \in ApiKeys : RateLimited(t, a)
    \/ CleanupOldRequests
    \/ LimiterTick
    \/ LimiterJump

SpecEndpoints == Init /\ [][NextEndpoints]_vars

NextStart ==
    \/ \E t \in Threads, w \in WorkflowIds, i \in InvocationIds :
          StartWritesRecord(t, w, i)
    \/ \E t \in Threads : StartChecksRunning(t)
    \/ \E t \in Threads : StartSetsRunning(t)
    \/ \E t \in Threads : StartStartsThread(t)
    \/ \E t \in Threads : CallerReturns(t)
    \/ TrackerTick

SpecStart == Init /\ [][NextStart]_vars

\* the request thread of SpecLock
LockThreads == {"t1"}

NextLock ==
    \/ \E t \in LockThreads, w \in WorkflowIds, i \in SoloIds : StartWritesRecord(t, w, i)
    \/ \E t \in LockThreads : StartChecksRunning(t)
    \/ \E t \in LockThreads : StartSetsRunning(t)
    \/ \E t \in LockThreads : StartStartsThread(t)
    \/ \E t \in LockThreads, op \in LockedOps, i \in SoloIds : CallerLocks(t, op, i)
    \/ \E t \in LockThreads : CallerUnlocks(t)
    \/ \E t \in LockThreads : CallerReturns(t)
    \/ LoopLocksSnapshot
    \/ LoopSnapshots
    \/ PollNext
    \/ \E r \in Responses : ProviderReturns(r)
    \/ ProviderReturnsNothing
    \/ ProviderRaises
    \/ LoopLocksOutcome
    \/ LoopAppliesOutcome

SpecLock == Init /\ [][NextLock]_vars

\* the tracking thread with two tracked jobs
NextCycle ==
    \/ \E w \in WorkflowIds, i \in InvocationIds : StartTracking(w, i)
    \/ BeginCycle
    \/ PollNext
    \/ \E r \in Responses : ProviderReturns(r)
    \/ ProviderRaises
    \/ ApplyResult
    \/ HandleUpdateError

SpecCycle == Init /\ [][NextCycle]_vars

\* two jobs tracked, polled and aged out: the cleanup may remove a record
\* while the poll of its id is in flight
DropResponses == {r \in Responses : r.state = "ok"}

NextDrop ==
    \/ \E w \in WorkflowIds, i \in InvocationIds : StartsUntracked(w, i)
    \/ \E h \in MaxAgeArgs : CleanupOldWorkflows(h)
    \/ BeginCycle
    \/ PollNext
    \/ \E r \in DropResponses : ProviderReturns(r)
    \/ ProviderRaises
    \/ ApplyResult
    \/ HandleUpdateError
    \/ TrackerTick

SpecDrop == Init /\ [][NextDrop]_vars

NextSingleton ==
    \/ \E t \in Threads, component \in Components : GetterTests(t, component)
    \/ \E t \in Threads : GetterConstructs(t)
    \/ \E t \in Threads : GetterReturns(t)
    \/ \E t \in Threads : GetterDone(t)

SpecSingleton == Init /\ [][NextSingleton]_vars

NextRetry ==
    \/ \E w \in WorkflowIds, i \in SoloIds : StartTracking(w, i)
    \/ BeginCycle
    \/ PollNext
    \/ \E r \in Responses : ShowInvocationReturns(r)
    \/ ShowInvocationRaises
    \/ BackoffSleep
    \/ ApplyResult
    \/ HandleUpdateError

SpecRetry == Init /\ [][NextRetry]_vars

NextStepErrors ==
    \/ \E w \in WorkflowIds, i \in SoloIds : StartTracking(w, i)
    \/ BeginCycle
    \/ PollNext
    \/ \E r \in StepErrorResponses : ProviderReturns(r)
    \/ ProviderRaises
    \/ ApplyResult
    \/ HandleUpdateError
    \/ TrackerTick

SpecStepErrors == Init /\ [][NextStepErrors]_vars

NextSnapshot ==
    \/ \E w \in WorkflowIds, i \in SoloIds : StartsUntracked(w, i)
    \/ \E i \in SoloIds : StopsUnlocked(i)
    \/ \E t \in LockThreads, op \in ReadOps, i \in SoloIds : CallerLocks(t, op, i)
    \/ \E t \in LockThreads : CallerTakesRecords(t)
    \/ \E t \in LockThreads : CallerDropsRecords(t)
    \/ LoopLocksSnapshot
    \/ LoopSnapshots
    \/ PollNext
    \/ \E r \in Responses : ProviderReturns(r)
    \/ ProviderRaises
    \/ LoopLocksOutcome
    \/ LoopWritesState
    \/ LoopWritesRest
    \/ LoopCountsFailure

SpecSnapshot == Init /\ [][NextSnapshot]_vars

NextLive ==
    \/ \E w \in WorkflowIds, i \in InvocationIds : StartTracking(w, i)
    \/ BeginCycle
    \/ PollNext
    \/ \E r \in LiveResponses : ProviderReturns(r)
    \/ ProviderRaisesForAWhile
    \/ ApplyResult
    \/ HandleUpdateError

\* the tracking thread is a thread of its own and is scheduled again and again;
\* a call of the provider comes back
SpecLive ==
    /\ Init
    /\ [][NextLive]_vars
    /\ WF_vars(BeginCycle)
    /\ WF_vars(PollNext)
    /\ WF_vars(ShowInvocationEnds)
    /\ WF_vars(ApplyResult)
    /\ WF_vars(HandleUpdateError)

NextTracker ==
    \/ \E w \in WorkflowIds, i \in SoloIds : StartTracking(w, i)
    \/ \E i \in SoloIds : StopTracking(i)
    \/ \E h \in MaxAgeArgs : CleanupOldWorkflows(h)
    \/ BeginCycle
    \/ PollNext
    \/ \E r \in Responses : ProviderReturns(r)
    \/ ProviderReturnsNothing
    \/ ProviderRaises
    \/ ApplyResult
    \/ HandleUpdateError
    \/ TrackerTick

SpecTracker == Init /\ [][NextTracker]_vars

NextConfidence ==
    \E names \in NamePairs, size1 \in FileSizes, size2 \in FileSizes,
       data_type1 \in DataTypes, data_type2 \in DataTypes :
        CalculatePairConfidence(SizedFile(names[1], size1, data_type1),
                                SizedFile(names[2], size2, data_type2))

SpecConfidence == Init /\ [][NextConfidence]_vars

NextPairs == DetectPairedReads

SpecPairs == InitPairs /\ [][NextPairs]_vars

(***************************************************************************)
(* Claims about the cache, checked under SpecCache                         *)
(***************************************************************************)
\* C2: for a cache of capacity max_size, after any set completes (and so in every
\* state, since only set adds entries) the cache holds at most max_size entries.
C2_CapacityBound == Cardinality(DOMAIN cache) <= max_size

\* a set arrived at a full cache, evicted, and left the cache full
C2_Witness ==
    /\ cache_ret.op = "set"
    /\ cache_ret.evicted # None
    /\ Cardinality(DOMAIN cache) = max_size

\* C3 as stated: get and exists on an entry with now >= expires_at (the instant
\* now = expires_at included) answer absent and remove the entry.
C3_AbsentFromExpiryInstant ==
    (cache_ret.op \in {"get", "exists"} /\ cache_ret.pre_left # None
        /\ cache_ret.pre_left[1] <= 0)
    => (~cache_ret.found /\ cache_ret.key \notin DOMAIN cache)

\* C3 amended: get and exists on an entry with now > expires_at answer absent and
\* remove the entry, with no sweep needed; at now <= expires_at (the instant
\* now = expires_at included) the entry is still answered and kept.
C3_AbsentAfterExpiry ==
    (cache_ret.op \in {"get", "exists"} /\ cache_ret.pre_left # None)
    => IF cache_ret.pre_left[1] < 0
       THEN ~cache_ret.found /\ cache_ret.key \notin DOMAIN cache
       ELSE cache_ret.found /\ cache_ret.key \in DOMAIN cache

\* a get met an entry that outlived its expiry (no sweep had removed it)
C3_Witness ==
    /\ cache_ret.op = "get"
    /\ cache_ret.pre_left # None
    /\ cache_ret.pre_left[1] < 0
    /\ ~cache_ret.found

\* C4: when set evicts, the entry removed is one whose last access (its most recent
\* set or successful get) is the oldest: no surviving entry was accessed earlier.
C4_EvictsLeastRecentlyAccessed ==
    (cache_ret.op = "set" /\ cache_ret.evicted # None)
    => \A k \in DOMAIN cache_ret.pre_touch :
          cache_ret.pre_touch[cache_ret.evicted[1]] <= cache_ret.pre_touch[k]

\* an eviction that spared an entry created before the victim's last access:
\* only a later get made the survivor the more recent one
C4_Witness ==
    /\ cache_ret.op = "set"
    /\ cache_ret.evicted # None
    /\ \E k \in DOMAIN cache \cap DOMAIN cache_ret.pre_touch :
          /\ k # cache_ret.key
          /\ cache[k].created_at < cache_ret.pre_touch[cache_ret.evicted[1]]
          /\ cache_ret.pre_touch[cache_ret.evicted[1]] < cache_ret.pre_touch[k]

(***************************************************************************)
(* Claims about the rate limiter, checked under SpecLimiter                *)
(***************************************************************************)
\* the calls of log that fall in the closed interval [from, from + width]
CallsWithin(log, from, width) ==
    Cardinality({j \in 1..Len(log) : log[j] >= from /\ log[j] <= from + width})

PollApplies == loop.pc \in {"apply", "error"} /\ loop'.pc = "pick"

\* C5: once a tracked job's state is terminal (completed by stop_tracking, failed
\* by exhausted polls, or terminal as reported by the provider), no later poll
\* changes that record's state.
C5_TerminalStateIsFinal ==
    [][PollApplies =>
         \A i \in DOMAIN active_workflows \cap DOMAIN active_workflows' :
            active_workflows[i].state \in Terminal
            => active_workflows'[i].state = active_workflows[i].state]_vars

\* C6: when stop_tracking(id) is called while a poll of id is in flight (the
\* provider has answered, the outcome is not yet applied), the late outcome is
\* discarded: after it is handled the record is still completed.
C6_LateResultDiscarded ==
    [][(PollApplies /\ loop.cur \in stop_inflight
          /\ loop.cur \in DOMAIN active_workflows')
       => active_workflows'[loop.cur].state = "completed"]_vars

\* C7: the tracking thread queries the provider only for non-terminal jobs: an id
\* whose record was terminal when the cycle began (and has not been tracked anew
\* since) is never polled in that cycle.
C7_TerminalJobsNotPolled ==
    ~(loop.pc \in {"apply", "error"} /\ loop.cur \in loop.stale)

\* C8: for a job started with start_tracking, when the provider has failed every
\* attempt in max_retries poll cycles in a row, handling the last failure leaves
\* the record failed, with a non-empty errors list and an end_time.
C8_ExhaustedPollsFailTheJob ==
    [][(loop.pc = "error" /\ loop'.pc = "pick"
          /\ loop.cur \in DOMAIN active_workflows'
          /\ fail_streak[loop.cur] >= max_retries)
       => /\ active_workflows'[loop.cur].state = "error"
          /\ active_workflows'[loop.cur].errors # <<>>
          /\ active_workflows'[loop.cur].end_time # None]_vars

\* three failed cycles in a row have been handled and the record is failed
C8_Witness ==
    \E i \in DOMAIN active_workflows :
        /\ fail_streak[i] >= max_retries
        /\ loop.pc = "pick"
        /\ active_workflows[i].retry_count = max_retries
        /\ active_workflows[i].state = "error"
        /\ active_workflows[i].errors = <<UpdateFailedMsg>>
        /\ active_workflows[i].end_time # None

(***************************************************************************)
(* Claims about the paired-reads handler, checked under SpecPairs          *)
(***************************************************************************)
\* the ids of the two files of a paired group
GroupIds(group) == {group.files[n].id : n \in 1..2}

\* C9: for every input list, no file is a member of more than one paired group
\* (a partner already consumed by an earlier candidate is never paired again).
C9_NoFileInTwoGroups ==
    detected # None
    => \A g, h \in 1..Len(detected[1].paired_groups) :
          g # h => GroupIds(detected[1].paired_groups[g])
                       \cap GroupIds(detected[1].paired_groups[h]) = {}

\* a name that carries no pair indicator at all
PlainName(name) == \A ind \in PairIndicators : ~Contains(name, ind)

\* the input is X_R1.<ext>, X_R2.<ext> (in positions i and j) and one further
\* recognized file, in position u, that has no partner
SimpleInput(i, j, u, X, ext) ==
    /\ Len(datasets) = 3
    /\ {i, j, u} = {1, 2, 3}
    /\ datasets[i].name = X \o T_R1 \o ext
    /\ datasets[j].name = X \o T_R2 \o ext
    /\ is_sequencing_file(datasets[u])
    /\ PlainName(datasets[u].name)

\* the stems X of the names the histories are drawn from
Stems == {Stem_a, Stem_a1}

\* C10: for an input made of X_R1.<ext>, X_R2.<ext> and one further recognized
\* file without a partner, detect_paired_reads returns exactly one paired group,
\* made of the two X files and named "X_paired", and exactly one unpaired file,
\* the partnerless one.
C10_SimplePairAndOneUnpaired ==
    \A i, j, u \in 1..3 : \A X \in Stems : \A ext \in SUPPORTED_EXTENSIONS :
        (detected # None /\ SimpleInput(i, j, u, X, ext))
        => /\ Len(detected[1].paired_groups) = 1
           /\ GroupIds(detected[1].paired_groups[1]) = {i, j}
           /\ detected[1].paired_groups[1].suggested_name = X \o Suffix_paired
           /\ detected[1].unpaired_files = <<datasets[u]>>

\* the history holds exactly S_1.<ext> and S_2.<ext>, in positions i and j
NumericPair(i, j, S, ext) ==
    /\ Len(datasets) = 2
    /\ {i, j} = {1, 2}
    /\ datasets[i].name = S \o T_1 \o ext
    /\ datasets[j].name = S \o T_2 \o ext

\* C11: two files named S_1.<ext> and S_2.<ext> are paired into one group of the
\* numeric pattern kind, for every recognized extension, the two-part compressed
\* extensions (.fq.gz, .fastq.gz) included.
C11_NumericPairAnyExtension ==
    \A i, j \in 1..2 : \A S \in Stems : \A ext \in SUPPORTED_EXTENSIONS :
        (detected # None /\ NumericPair(i, j, S, ext))
        => /\ Len(detected[1].paired_groups) = 1
           /\ GroupIds(detected[1].paired_groups[1]) = {i, j}
           /\ detected[1].paired_groups[1].pair_type \in {"illumina_1_2", "illumina_2_1"}

\* a name that ends, ignoring case, with none of the recognized extensions
Unrecognized(name) == \A ext \in SUPPORTED_EXTENSIONS : ~EndsWithCI(name, ext)

\* C12: a descriptor whose name does not end (ignoring case) with a recognized
\* extension is in no paired group (so it is nobody's partner) and is not in the
\* unpaired list.
C12_UnrecognizedIgnored ==
    detected # None
    => \A n \in 1..Len(datasets) :
          Unrecognized(datasets[n].name)
          => /\ \A g \in 1..Len(detected[1].paired_groups) :
                   datasets[n].id \notin GroupIds(detected[1].paired_groups[g])
             /\ \A u \in 1..Len(detected[1].unpaired_files) :
                   detected[1].unpaired_files[u].id # datasets[n].id

\* a history with an unrecognized file next to a pair and an unpaired file, once
\* detection has run
C12_Witness ==
    /\ detected # None
    /\ \E n \in 1..Len(datasets) : Unrecognized(datasets[n].name)
    /\ Len(detected[1].paired_groups) >= 1
    /\ Len(datasets) = MaxFiles

(***************************************************************************)
(* Further claims about the rate limiter, checked under SpecLimiter         *)
(***************************************************************************)
\* key k has had no allowed call for `quiet` seconds before the burst that the
\* call arriving now belongs to, and fewer than L calls of that burst so far:
\* log[m] is the last allowed call before the quiet period
InBurstAfter(k, m, strictly) ==
    LET log == allowed_log[k]
        first == IF m = Len(log) THEN now ELSE log[m + 1]
        W == LimitFor(k).window
    IN  /\ IF strictly THEN log[m] + W < first ELSE log[m] + W <= first
        /\ Len(log) - m < LimitFor(k).requests

\* C13 as stated: once W seconds have passed with no call for the key (the next
\* call arrives at t >= last accepted timestamp + W), the next L calls are all
\* allowed.
C13_BurstFromWindowEnd ==
    [][\A k \in RlKeys :
          (CheckRateLimit(k) /\ \E m \in 1..Len(allowed_log[k]) : InBurstAfter(k, m, FALSE))
          => rl_ret'.allowed]_vars

\* C13 amended: once more than W seconds have passed with no call for the key
\* (the next call arrives at t > last accepted timestamp + W), the next L calls
\* are all allowed.
C13_BurstAfterWindowEnd ==
    [][\A k \in RlKeys :
          (CheckRateLimit(k) /\ \E m \in 1..Len(allowed_log[k]) : InBurstAfter(k, m, TRUE))
          => rl_ret'.allowed]_vars

\* a key filled its window with L calls, stayed quiet for more than W seconds,
\* and then had L more calls allowed
C13_Witness ==
    \E k \in RlKeys :
        LET log == allowed_log[k]
            L == LimitFor(k).requests
            W == LimitFor(k).window
        IN  /\ L >= 2
            /\ Len(log) = 2 * L
            /\ log[1] + W >= log[L]
            /\ log[L] + W < log[L + 1]
            /\ rl_ret.key = k /\ rl_ret.allowed /\ rl_ret.remaining = 0

(***************************************************************************)
(* Claims about rate-limited endpoints, checked under SpecEndpoints        *)
(***************************************************************************)
\* C14: after set_limit(C, n, w) for an endpoint class C, a request to an
\* endpoint decorated with rate_limit(C) is decided with limit n and window w,
\* not with the global default.
C14_ClassLimitApplies ==
    [][\A t \in LimitTypes : \A a \in ApiKeys :
          (RateLimited(t, a) /\ t \in DOMAIN limits)
          => /\ rl_ret'.limit = limits[t].requests
             /\ rl_ret'.window = limits[t].window]_vars

(***************************************************************************)
(* Further claims about the workflow tracker                                *)
(***************************************************************************)
\* C15: start_tracking on an id that is already tracked leaves the existing
\* record as it is: state, steps, progress, errors, start_time and the
\* failed-poll counter are unchanged.
C15_RestartKeepsRecord ==
    [][\A w \in WorkflowIds : \A i \in InvocationIds :
          (StartTracking(w, i) /\ i \in DOMAIN active_workflows)
          => /\ active_workflows'[i].state = active_workflows[i].state
             /\ active_workflows'[i].steps = active_workflows[i].steps
             /\ active_workflows'[i].progress = active_workflows[i].progress
             /\ active_workflows'[i].errors = active_workflows[i].errors
             /\ active_workflows'[i].start_time = active_workflows[i].start_time
             /\ active_workflows'[i].retry_count = active_workflows[i].retry_count]_vars

\* C16: whatever the interleaving of concurrent start_tracking calls, at most
\* one tracking thread is ever started, and once a start_tracking has returned
\* a tracking thread has been started.
C16_OneTrackingLoop ==
    /\ loops_started <= 1
    /\ (\E t \in Threads : caller[t].pc = "returned") => loops_started >= 1

\* C17: the tracker lock is never held by the tracking thread while a provider
\* call or a retry backoff sleep is in progress, so a request thread's
\* get_workflow_status, get_all_active_workflows, start_tracking or
\* stop_tracking never waits for an in-flight poll.
C17_NoLockDuringPoll == loop.pc = "poll" => lock # "loop"

\* a request thread reads a status under the lock while a poll is in flight
\* after a failed attempt (the backoff of the retry)
C17_Witness ==
    /\ loop.pc = "poll"
    /\ loop.attempt >= 1
    /\ \E t \in LockThreads :
          /\ lock = t
          /\ caller[t].pc = "locked"
          /\ caller[t].op = "get_workflow_status"

\* C18: within one poll cycle a job whose provider calls fail does not delay the
\* polling of the other jobs: no retry backoff wait of the failing job happens
\* while another job of the same cycle is still to be polled.
C18_NoBackoffBeforeOtherPolls ==
    ~(loop.pc = "poll" /\ loop.attempt >= 1 /\ loop.todo # {})

\* C19: cleanup_old_workflows(max_age_hours) removes every terminal record whose
\* end_time is older than the cutoff, records completed by stop_tracking
\* included, and no other record: in every state the ids it collects are
\* exactly the terminal ones that ended before the cutoff.
C19_CleanupRemovesOldTerminal ==
    \A h \in MaxAgeArgs :
        to_remove(h) = {i \in DOMAIN active_workflows :
                          /\ active_workflows[i].state \in Terminal
                          /\ active_workflows[i].end_time # None
                          /\ active_workflows[i].end_time[1] < cutoff_time(h)}

(***************************************************************************)
(* C20: the module-level instances                                         *)
(***************************************************************************)
Constructed(component) ==
    {i \in UNION {getter[t].made : t \in Threads} : i[1] = component}

Received(component) ==
    {getter[t].got : t \in {u \in Threads : /\ getter[u].pc = "returned"
                                            /\ getter[u].component = component}}

\* C20: however concurrent calls of get_cache_manager, get_rate_limiter or
\* get_workflow_tracker interleave, at most one instance of the component is
\* ever constructed, exactly one once a caller has returned, and all callers
\* that have returned hold that one instance.
C20_OneInstanceForAllCallers ==
    \A component \in Components :
        /\ Cardinality(Constructed(component)) <= 1
        /\ Received(component) # {} =>
               /\ Cardinality(Constructed(component)) = 1
               /\ Received(component) = Constructed(component)

(***************************************************************************)
(* C21: construction arguments of the cache                                *)
(***************************************************************************)
\* C21: a cache is never constructed with a capacity or a default ttl that is
\* zero or negative, so no set is ever accepted by a cache so configured.
C21_InvalidConfigRejected ==
    /\ constructed # None =>
           /\ constructed[1].max_size > 0
           /\ constructed[1].default_ttl > 0
    /\ (constructed # None /\ cache_ret.op = "set" /\ cache_ret.found) =>
           /\ constructed[1].max_size > 0
           /\ constructed[1].default_ttl > 0

(***************************************************************************)
(* C22: the confidence score                                               *)
(***************************************************************************)
\* min(a,b)/max(a,b) <= min(c,d)/max(c,d), for pairs of sizes not both zero
RatioLeq(a, b, c, d) ==
    Min2(a, b) * Max2(c, d) <= Min2(c, d) * Max2(a, b)

\* C22: for the pair of names just scored, the score lies in [0, 1]; the same
\* names with sizes of an equal or larger ratio never score less; and the same
\* pair with the data types made equal never scores less.
C22_ConfidenceMonotone ==
    scored # None =>
        LET file1 == scored[1].file1
            file2 == scored[1].file2
            confidence == scored[1].confidence
        IN  /\ FracLeq(Frac(0, 1), confidence)
            /\ FracLeq(confidence, Frac(10, 1))
            /\ \A size1 \in FileSizes, size2 \in FileSizes :
                  ( /\ Max2(file1.file_size, file2.file_size) > 0
                    /\ Max2(size1, size2) > 0
                    /\ RatioLeq(file1.file_size, file2.file_size, size1, size2) )
                  => FracLeq(confidence,
                             calculate_pair_confidence(
                                 [file1 EXCEPT !.file_size = size1],
                                 [file2 EXCEPT !.file_size = size2]))
            /\ FracLeq(confidence,
                       calculate_pair_confidence(
                           file1, [file2 EXCEPT !.data_type = file1.data_type]))

\* a pair with unequal positive sizes and different data types has been scored
C22_Witness ==
    /\ scored # None
    /\ scored[1].file1.file_size > 0
    /\ scored[1].file2.file_size > scored[1].file1.file_size
    /\ scored[1].file1.data_type # scored[1].file2.data_type
    /\ scored[1].confidence.num > 0

(***************************************************************************)
(* C23: what a check records                                               *)
(***************************************************************************)
\* the timestamps held for a key, and those of them still inside the window
\* that ends at time t
HeldFor(k) == IF k \in DOMAIN requests THEN requests[k] ELSE <<>>
InWindow(k, t) == SelectSeq(HeldFor(k), LAMBDA x : x >= t - LimitFor(k).window)

\* C23: a rejected check leaves for its key exactly the timestamps that were
\* already held and are still inside the window, and nothing else; an accepted
\* check leaves those followed by one timestamp equal to the time of the call.
\* No other key's timestamps change.
C23_RejectedRecordsNothing ==
    [][\A k \in RlKeys :
          CheckRateLimit(k) =>
              /\ ~rl_ret'.allowed => requests'[k] = InWindow(k, now)
              /\ rl_ret'.allowed => requests'[k] = InWindow(k, now) \o <<now>>
              /\ \A j \in DOMAIN requests \ {k} : requests'[j] = requests[j]
      ]_vars

\* a check was rejected later than the calls it had recorded, which are all
\* still held
C23_Witness ==
    /\ ~rl_ret.allowed
    /\ rl_ret.limit > 0
    /\ rl_ret.key \in DOMAIN requests
    /\ Len(requests[rl_ret.key]) = rl_ret.limit
    /\ \A n \in 1..Len(requests[rl_ret.key]) : requests[rl_ret.key][n] < now

(***************************************************************************)
(* C24: the reset time and the remaining count of a result                 *)
(***************************************************************************)
\* the oldest of a non-empty sequence of timestamps
Oldest(times) ==
    CHOOSE x \in {times[n] : n \in 1..Len(times)} :
        \A n \in 1..Len(times) : x <= times[n]

\* C24: the result of every check carries as reset_time the oldest timestamp
\* its key holds after the call plus the window, or the time of the call when
\* the key holds none; and as remaining the limit minus the number of
\* timestamps held after the call when allowed, 0 when rejected, never a
\* negative number.
C24_ResetTimeAndRemaining ==
    [][\A k \in RlKeys :
          CheckRateLimit(k) =>
              /\ rl_ret'.reset_time =
                     IF requests'[k] # <<>>
                     THEN Oldest(requests'[k]) + LimitFor(k).window
                     ELSE now
              /\ rl_ret'.remaining =
                     IF rl_ret'.allowed
                     THEN LimitFor(k).requests - Len(requests'[k])
                     ELSE 0
              /\ rl_ret'.remaining >= 0
      ]_vars

\* an allowed check whose key holds an older timestamp besides its own
C24_Witness ==
    /\ rl_ret.allowed
    /\ rl_ret.key \in DOMAIN requests
    /\ Len(requests[rl_ret.key]) >= 2
    /\ requests[rl_ret.key][1] < requests[rl_ret.key][Len(requests[rl_ret.key])]
    /\ rl_ret.reset_time = requests[rl_ret.key][1] + rl_ret.window

\* a rejected check whose key holds no timestamp: the reset time is the time
\* of the call
C24_WitnessEmpty ==
    /\ ~rl_ret.allowed
    /\ rl_ret.key \in DOMAIN requests
    /\ requests[rl_ret.key] = <<>>
    /\ rl_ret.reset_time = now
    /\ now > 0

(***************************************************************************)
(* C25: forced failure needs failed cycles in a row                        *)
(***************************************************************************)
\* C25: whenever handling a failed poll cycle forces a record to the failed
\* state (a failure message is appended to its errors), the provider has
\* failed max_retries poll cycles in a row for that job, with no poll that
\* returned without raising in between.
C25_ForcedOnlyAfterFailuresInARow ==
    [][(/\ loop.pc = "error"
        /\ loop'.pc = "pick"
        /\ loop.cur \in DOMAIN active_workflows
        /\ loop.cur \in DOMAIN active_workflows'
        /\ active_workflows'[loop.cur].errors
             = Append(active_workflows[loop.cur].errors, UpdateFailedMsg))
       => failed_cycles[loop.cur] >= max_retries]_vars

(***************************************************************************)
(* C26: the attempts of one poll cycle                                     *)
(***************************************************************************)
CallsIn(log) == SelectSeq(log, LAMBDA e : e.event = "call")
AllAttemptsFailed(log) ==
    /\ Len(CallsIn(log)) = max_retries
    /\ \A n \in 1..Len(CallsIn(log)) : CallsIn(log)[n].outcome = "raised"

\* calls and waits alternate, starting with a call; only the last call may have
\* returned; the wait before retry k lasts retry_delay * 2^(k-1) seconds
AttemptsInOrder(log) ==
    \A n \in 1..Len(log) :
        IF n % 2 = 1
        THEN /\ log[n].event = "call"
             /\ n < Len(log) => log[n].outcome = "raised"
        ELSE /\ log[n].event = "wait"
             /\ log[n].seconds = retry_delay * 2 ^ ((n \div 2) - 1)
             /\ (n = 2 => log[n].seconds = 1)
             /\ (n = 4 => log[n].seconds = 2)

\* C26: in one poll cycle of one job show_invocation is called at most
\* max_retries times and not again after it has returned; the wait before
\* retry k is retry_delay * 2^(k-1) (1 s, then 2 s); the thread gives up right
\* after the last failed attempt, without a wait; and the record's failure
\* count goes up, by one, only for a cycle in which all attempts failed.
C26_AttemptsOfOneCycle ==
    /\ [](/\ Len(CallsIn(poll_log)) <= max_retries
          /\ AttemptsInOrder(poll_log)
          /\ loop.pc = "apply" =>
                 poll_log[Len(poll_log)] = Called("returned")
          /\ loop.pc = "error" =>
                 /\ AllAttemptsFailed(poll_log)
                 /\ poll_log[Len(poll_log)] = Called("raised"))
    /\ [][\A i \in DOMAIN active_workflows \cap DOMAIN active_workflows' :
             active_workflows'[i].retry_count > active_workflows[i].retry_count =>
                 /\ active_workflows'[i].retry_count
                      = active_workflows[i].retry_count + 1
                 /\ i = loop.cur
                 /\ AllAttemptsFailed(poll_log)]_vars

\* a cycle that failed twice, waited 1 s and 2 s, and succeeded at the third call
C26_Witness ==
    /\ loop.pc = "apply"
    /\ poll_log = <<Called("raised"), Waited(1), Called("raised"), Waited(2),
                    Called("returned")>>

\* a cycle that gave up after three failed calls has been counted
C26_WitnessGaveUp ==
    /\ loop.pc = "pick"
    /\ AllAttemptsFailed(poll_log)
    /\ Len(poll_log) = 5
    /\ \E i \in DOMAIN active_workflows : active_workflows[i].retry_count = 1

(***************************************************************************)
(* C27: one message per failed step label                                  *)
(***************************************************************************)
StepLabels == {"align", "sort"}
TimesListed(errors, label) ==
    Cardinality({n \in 1..Len(errors) : errors[n] = <<"Step failed", label>>})

\* C27: however many polls have reported a step in the error sub-state, the
\* errors list of the record holds the failure message of a step label at most
\* once, and exactly once for every label that the last applied poll reported
\* in error.
C27_OneMessagePerStepLabel ==
    \A i \in DOMAIN active_workflows :
        LET info == active_workflows[i] IN
        /\ \A label \in StepLabels : TimesListed(info.errors, label) <= 1
        /\ \A id \in DOMAIN info.steps :
              info.steps[id].state = "error" =>
                  TimesListed(info.errors, info.steps[id].name) = 1

\* a poll that reports a failed step is about to be applied to a record that
\* lists the step's message already, from an earlier poll
C27_Witness ==
    /\ loop.pc = "apply"
    /\ loop.cur \in DOMAIN active_workflows
    /\ \E n \in 1..Len(loop.result.steps) :
          /\ loop.result.steps[n].state = "error"
          /\ TimesListed(active_workflows[loop.cur].errors,
                         loop.result.steps[n].workflow_step_label) = 1
          /\ active_workflows[loop.cur].last_update > active_workflows[loop.cur].start_time

(***************************************************************************)
(* C28: what a status read returns                                         *)
(***************************************************************************)
\* C28: the records a caller holds from get_workflow_status or
\* get_all_active_workflows keep the values they had when the call returned,
\* whatever a poll update, stop_tracking or a forced failure does afterwards;
\* in particular the caller never finds in them an update of which only the
\* first part has been written.
C28_ReadIsCommittedSnapshot ==
    \A t \in Threads :
        held_records[t] # None =>
            /\ Seen(t) = held_records[t][1]
            /\ ~(loop.pc = "apply_rest" /\ loop.cur \in DOMAIN held_records[t][1])

(***************************************************************************)
(* C29: the tracking loop goes on                                          *)
(***************************************************************************)
\* C29: once the tracker is running, the tracking thread starts a new cycle
\* again and again, whatever the provider raised in the cycles before; and
\* every job that is tracked and not in a final state is polled later on, and
\* so again and again for as long as it stays so.
C29_LoopGoesOn ==
    /\ [](running => <>(loop.pc = "sleep"))
    /\ []((running /\ loop.pc = "sleep") => <>(loop.pc = "pick"))
    /\ \A i \in InvocationIds :
          []((/\ i \in DOMAIN active_workflows
              /\ active_workflows[i].state \notin Terminal
              /\ ~(loop.pc = "poll" /\ loop.cur = i))
             => <>(loop.pc = "poll" /\ loop.cur = i))

\* a job is polled again after a cycle in which all its polls raised, while the
\* other job is still to be polled in the same cycle
C29_Witness ==
    /\ loop.pc = "poll"
    /\ loop.cur \in DOMAIN active_workflows
    /\ active_workflows[loop.cur].retry_count >= 1
    /\ active_workflows[loop.cur].state \notin Terminal
    /\ loop.todo # {}

(***************************************************************************)
(* C30: the background sweep of the cache                                  *)
(***************************************************************************)
\* C30: a sweep removes every entry whose expiry time has passed (expires_at
\* earlier than the time of the sweep), keeps every other entry as it is, and
\* keeps the access times of exactly the entries it keeps; and an entry whose
\* expiry time has passed does not stay for ever, even if no get or exists
\* ever touches it again: the sweep runs and removes it.
C30_SweepRemovesExpired ==
    /\ [][CleanupExpiredCache =>
             /\ DOMAIN cache' = {k \in DOMAIN cache : cache[k].expires_at >= now}
             /\ \A k \in DOMAIN cache' : cache'[k] = cache[k]
             /\ DOMAIN access_times' = DOMAIN access_times \cap DOMAIN cache']_vars
    /\ \A k \in CacheKeys :
          []((k \in DOMAIN cache /\ cache[k].expires_at < now)
             => <>(k \notin DOMAIN cache \/ cache[k].expires_at >= now))

\* a sweep has just removed expired entries and kept an entry that is not expired
C30_Witness ==
    /\ cache_ret.op = "sweep"
    /\ cache_ret.found
    /\ Cardinality(DOMAIN cache) = 1
    /\ \A k \in DOMAIN cache : cache[k].expires_at >= now

(***************************************************************************)
(* C31: the data-type term of the pair confidence                          *)
(***************************************************************************)
\* the score with the data-type term left out
WithoutTypeTerm(file1, file2) ==
    FracMin(FracAdd(pattern_term(lower(file1.name), lower(file2.name)),
                    size_term(file1.file_size, file2.file_size)),
            Frac(10, 1))

\* C31: the pair just scored got the data-type term (0.2) only when both files
\* carry a non-empty data_type and the two are equal; without that, and in
\* particular when both files have no data_type, the score is the one of the
\* name pattern and the sizes alone.
C31_TypeBonusNeedsDataTypes ==
    scored # None =>
        LET file1 == scored[1].file1
            file2 == scored[1].file2
        IN  ~(file1.data_type # "" /\ file1.data_type = file2.data_type)
            => scored[1].confidence = WithoutTypeTerm(file1, file2)

(***************************************************************************)
(* C32: the suggested name of a pair                                       *)
(***************************************************************************)
\* the name cut at its last pair indicator: the stem left when only the
\* trailing indicator and what follows it are removed
StripTrailing(name) ==
    LET at == UNION {Occurrences(name, ind) : ind \in PairIndicators} IN
    IF at = {} THEN name
    ELSE SubSeq(name, 1, (CHOOSE p \in at : \A q \in at : q <= p) - 1)

\* C32: every group of a detection result is named after the shorter of the two
\* stems left when only the trailing pair indicator is removed from each name,
\* followed by "_paired"; so a_1_R1.fq with a_1_R2.fq is named "a_1_paired".
C32_SuggestedNameKeepsStem ==
    detected # None =>
        \A g \in 1..Len(detected[1].paired_groups) :
            LET group == detected[1].paired_groups[g]
                stem1 == StripTrailing(group.files[1].name)
                stem2 == StripTrailing(group.files[2].name)
            IN  group.suggested_name =
                    (IF Len(stem2) < Len(stem1) THEN stem2 ELSE stem1) \o Suffix_paired

(***************************************************************************)
(* C33: end_time and the terminal states                                   *)
(***************************************************************************)
\* C33: a tracked record carries an end_time exactly when its state is terminal
\* (ok, error, deleted, or completed by stop_tracking); no record is in a
\* non-terminal state while carrying an end_time.
C33_EndTimeIffTerminal ==
    \A i \in DOMAIN active_workflows :
        (active_workflows[i].end_time # None) <=> (active_workflows[i].state \in Terminal)

(***************************************************************************)
(* C34: the generic messages of a record                                   *)
(***************************************************************************)
\* how often a message is in an errors list
TimesIn(errors, msg) == Cardinality({n \in 1..Len(errors) : errors[n] = msg})

\* C34: over any number of poll cycles the errors of a tracked record hold the
\* message "Workflow execution failed" at most once and the message "Failed to
\* update workflow status: ..." at most once: a terminal record's errors list
\* does not grow.
C34_GenericMessagesOnce ==
    \A i \in DOMAIN active_workflows :
        /\ TimesIn(active_workflows[i].errors, WorkflowFailedMsg) <= 1
        /\ TimesIn(active_workflows[i].errors, UpdateFailedMsg) <= 1

(***************************************************************************)
(* C35: the statistics of the tracker                                      *)
(***************************************************************************)
\* C35: in the statistics of any reachable state every tracked record is counted
\* as running or as completed (a record ended by stop_tracking as completed), so
\* total = running + completed; failed <= completed; and the success rate lies
\* between 0 and 100.
C35_StatisticsAddUp ==
    LET stats == get_workflow_statistics IN
    /\ stats.total_workflows = stats.running_workflows + stats.completed_workflows
    /\ stats.completed_workflows = CountInState(Terminal)
    /\ stats.failed_workflows <= stats.completed_workflows
    /\ 0 <= stats.success_rate.num
    /\ stats.success_rate.num <= 100 * stats.success_rate.den

(***************************************************************************)
(* C36: a set on a key that is present                                     *)
(***************************************************************************)
\* C36: a set on a key that is already in the cache evicts no other key, also
\* when the cache is at capacity: the same keys are in the cache afterwards and
\* every other entry is as it was.
C36_OverwriteEvictsNothing ==
    [][\A key \in CacheKeys, value \in CacheValues, ttl \in TtlArgs :
          (key \in DOMAIN cache /\ Set(key, value, ttl))
          => /\ DOMAIN cache' = DOMAIN cache
             /\ \A k \in DOMAIN cache \ {key} : cache'[k] = cache[k]]_vars

(***************************************************************************)
(* C37: cleanup_old_requests and the later checks                          *)
(***************************************************************************)
\* the request times a check of key at time t keeps, and whether it rejects
KeptByCheck(reqs, key, t) ==
    PopOld(IF key \in DOMAIN reqs THEN reqs[key] ELSE <<>>, t - LimitFor(key).window)
RejectedByCheck(reqs, key, t) ==
    LimitExceeded(Len(KeptByCheck(reqs, key, t)), LimitFor(key))

\* C37: a run of cleanup_old_requests discards only request times that the next
\* check of the key would prune itself, whatever the key's window: for every key
\* a check made right after the cleanup keeps the same request times and decides
\* the same as it would have without the cleanup.
C37_CleanupKeepsDecisions ==
    [][CleanupOldRequests =>
          \A key \in RlKeys :
              /\ KeptByCheck(requests', key, now) = KeptByCheck(requests, key, now)
              /\ RejectedByCheck(requests', key, now) = RejectedByCheck(requests, key, now)]_vars

(***************************************************************************)
(* C38: the counts of a detection result                                   *)
(***************************************************************************)
\* C38: in a successful result of detect_paired_reads the counts agree with the
\* lists: total_pairs is the number of groups, total_unpaired the number of
\* unpaired files, and twice the pairs plus the unpaired files are the
\* recognized sequencing files of the history.
C38_CountsAgreeWithLists ==
    (detected # None /\ detected[1].success) =>
        /\ detected[1].total_pairs = Len(detected[1].paired_groups)
        /\ detected[1].total_unpaired = Len(detected[1].unpaired_files)
        /\ 2 * detected[1].total_pairs + detected[1].total_unpaired
               = Len(SelectSeq(datasets, is_sequencing_file))

(***************************************************************************)
(* C39: a poll outcome for an id that is no longer tracked                 *)
(***************************************************************************)
\* the tracking thread is about to apply the outcome of a poll
LoopApplies == ApplyResult \/ HandleUpdateError

\* C39: when the result or the failure of a poll is applied, no record is
\* created: the tracked ids stay the same and every record but the polled one
\* is unchanged; and when the polled id is no longer tracked (cleanup removed
\* it while the poll was in flight) nothing in the tracked map changes at all.
C39_LateOutcomeDropped ==
    [][LoopApplies =>
          /\ DOMAIN active_workflows' = DOMAIN active_workflows
          /\ \A i \in DOMAIN active_workflows \ {loop.cur} :
                active_workflows'[i] = active_workflows[i]
          /\ loop.cur \notin DOMAIN active_workflows
                => active_workflows' = active_workflows]_vars

\* the outcome of a poll has just been dropped for an id that cleanup removed
\* in the meantime, while another job is tracked
C39_Witness ==
    /\ loop.pc = "pick"
    /\ \E i \in loop.dropped : i \notin DOMAIN active_workflows
    /\ active_workflows # EmptyDict

====
